---- MODULE Spec2Model ----
(***************************************************************************)
(* Model of the line segmentation core of brawer/bern-addresses:            *)
(* cleanup_text, merge_lines and Splitter (src/src/split_v2.py),            *)
(* Box / OCRLine / AddressBookEntry.to_dict (src/src/utils.py) and the      *)
(* column check at the head of Validator.validate (src/src/validator.py).   *)
(*                                                                         *)
(* Python strings are TLA+ strings, handled character by character with     *)
(* Len, SubSeq and \o.  A string literal of the module holds ASCII only, so *)
(* each non-ASCII code point of the source is written as one ASCII          *)
(* character that the source never uses:                                   *)
(*     |  U+017F long s            %  U+00DF sharp s                        *)
(*     ~  U+2E17 double hyphen     _  U+2014 em dash                        *)
(*     ^  U+2013 en dash           $  U+2019 right single quote             *)
(*     {  U+00E4 a umlaut          }  U+00F6 o umlaut                       *)
(*     #  U+00FC u umlaut          @  U+00C4 A umlaut                       *)
(*     <  U+1EB5 a breve tilde     >  U+00E5 a ring                         *)
(*     !  U+00D6 O umlaut          ?  U+00DC U umlaut                       *)
(*     *  U+00E8 e grave                                                    *)
(***************************************************************************)
EXTENDS Integers, Sequences, FiniteSets, TLC

(***************************************************************************)
(* Python str and list primitives.                                         *)
(***************************************************************************)
Ch(s, i) == IF 1 <= i /\ i <= Len(s) THEN SubSeq(s, i, i) ELSE ""

Chars(s) == {Ch(s, i) : i \in 1..Len(s)}

Min(S) == CHOOSE m \in S : \A n \in S : m <= n

Max(S) == CHOOSE m \in S : \A n \in S : m >= n

StartsWith(s, p) == Len(p) <= Len(s) /\ SubSeq(s, 1, Len(p)) = p

EndsWith(s, p) == Len(p) <= Len(s) /\ SubSeq(s, Len(s) - Len(p) + 1, Len(s)) = p

RemovePrefix(s, p) == IF StartsWith(s, p) THEN SubSeq(s, Len(p) + 1, Len(s)) ELSE s

\* s.find(sub, from): the first index >= from at which sub occurs, 0 if none.
FindFrom(s, sub, from) ==
  LET hits == {i \in from..(Len(s) - Len(sub) + 1) : SubSeq(s, i, i + Len(sub) - 1) = sub}
  IN  IF hits = {} THEN 0 ELSE Min(hits)

Contains(s, sub) == FindFrom(s, sub, 1) > 0

RECURSIVE ReplaceFrom(_, _, _, _)
ReplaceFrom(s, a, b, from) ==
  LET i == FindFrom(s, a, from)
  IN  IF i = 0 THEN SubSeq(s, from, Len(s))
      ELSE SubSeq(s, from, i - 1) \o b \o ReplaceFrom(s, a, b, i + Len(a))

\* s.replace(a, b): every non-overlapping occurrence, left to right.
Replace(s, a, b) == ReplaceFrom(s, a, b, 1)

RECURSIVE SplitFrom(_, _, _)
SplitFrom(s, sep, from) ==
  LET i == FindFrom(s, sep, from)
  IN  IF i = 0 THEN <<SubSeq(s, from, Len(s))>>
      ELSE <<SubSeq(s, from, i - 1)>> \o SplitFrom(s, sep, i + Len(sep))

\* s.split(sep): empty pieces are kept, "" gives [""].
Split(s, sep) == SplitFrom(s, sep, 1)

IsSpace(c) == c = " "

\* s.strip()
Strip(s) ==
  LET keep == {i \in 1..Len(s) : ~IsSpace(Ch(s, i))}
  IN  IF keep = {} THEN "" ELSE SubSeq(s, Min(keep), Max(keep))

RECURSIVE WordsFrom(_, _)
WordsFrom(s, from) ==
  LET starts == {i \in from..Len(s) : ~IsSpace(Ch(s, i))}
  IN  IF starts = {} THEN <<>>
      ELSE LET b == Min(starts)
               ends == {j \in b..Len(s) : IsSpace(Ch(s, j))}
               e == IF ends = {} THEN Len(s) + 1 ELSE Min(ends)
           IN  <<SubSeq(s, b, e - 1)>> \o WordsFrom(s, e)

\* s.split(): the whitespace-separated words, none empty.
Words(s) == WordsFrom(s, 1)

RECURSIVE Join(_, _)
\* sep.join(list)
Join(list, sep) ==
  IF Len(list) = 0 THEN ""
  ELSE IF Len(list) = 1 THEN list[1]
  ELSE list[1] \o sep \o Join(Tail(list), sep)

\* list[from:] with from counted from 0 as in Python.
Drop(list, n) == IF n >= Len(list) THEN <<>> ELSE SubSeq(list, n + 1, Len(list))

\* list[:n]
Take(list, n) == IF n >= Len(list) THEN list ELSE SubSeq(list, 1, n)

MapStrip(list) == [i \in 1..Len(list) |-> Strip(list[i])]

RECURSIVE FilterNonEmpty(_)
FilterNonEmpty(list) ==
  IF Len(list) = 0 THEN <<>>
  ELSE (IF list[1] = "" THEN <<>> ELSE <<list[1]>>) \o FilterNonEmpty(Tail(list))

Digits == {"0", "1", "2", "3", "4", "5", "6", "7", "8", "9"}

AsciiUpper == Chars("ABCDEFGHIJKLMNOPQRSTUVWXYZ")

AsciiLower == Chars("abcdefghijklmnopqrstuvwxyz")

\* The stand-ins of the module's header: the non-ASCII code points.
NonAscii == Chars("|%~_^${}#@<>!?*")

IsAscii(s) == Chars(s) \cap NonAscii = {}

\* A faulty table, which C10 must tell from REPLACEMENTS: "plagg" gives
\* "plazg", which the entry "plazg" before it changes on a second pass.
REPLACEMENTS_plagg_plazg == <<
  <<"..", ".,">>, <<"'", "$">>, <<"<", "{">>, <<">", "{">>,
  <<"Bolwerk", "Bollwerk">>, <<"Casinoplag", "Casinoplatz">>,
  <<"gaffe", "gasse">>, <<"I.", "J.">>, <<"Igfr.", "Jgfr.">>,
  <<"Inkg.", "Jnkg.">>, <<"Junferng", "Junkerng">>,
  <<"K{shdir", "K{shdlr">>, <<"Megg", "Metzg">>, <<"Mezg", "Metzg">>,
  <<"Nabbenth", "Rabbenth">>, <<"Nent", "Rent">>, <<"Nevifor", "Revisor">>,
  <<"plazg", "platzg">>, <<"plaz ", "platz ">>, <<"plagg", "plazg">>,
  <<"R{fich", "K{fich">>, <<"Regt.", "Negt.">>, <<"Ressler", "Kessler">>,
  <<"SchauFlagg", "Schauplatzg">>, <<"Schlsfr", "Schlssr">>,
  <<"Schweft", "Schwest">> >>

(***************************************************************************)
(* cleanup_text (split_v2.py).                                             *)
(***************************************************************************)
\* The dict REPLACEMENTS in insertion order, the order its items() are applied in.
REPLACEMENTS == <<
  <<"..", ".,">>, <<"'", "$">>, <<"<", "{">>, <<">", "{">>,
  <<"Bolwerk", "Bollwerk">>, <<"Casinoplag", "Casinoplatz">>,
  <<"gaffe", "gasse">>, <<"I.", "J.">>, <<"Igfr.", "Jgfr.">>,
  <<"Inkg.", "Jnkg.">>, <<"Junferng", "Junkerng">>,
  <<"K{shdir", "K{shdlr">>, <<"Megg", "Metzg">>, <<"Mezg", "Metzg">>,
  <<"Nabbenth", "Rabbenth">>, <<"Nent", "Rent">>, <<"Nevifor", "Revisor">>,
  <<"plazg", "platzg">>, <<"plaz ", "platz ">>, <<"plagg", "platzg">>,
  <<"R{fich", "K{fich">>, <<"Regt.", "Negt.">>, <<"Ressler", "Kessler">>,
  <<"SchauFlagg", "Schauplatzg">>, <<"Schlsfr", "Schlssr">>,
  <<"Schweft", "Schwest">> >>

\* The character class [0-9A-ZÄÖÜ] of the first regex.
UpperOrDigit == Digits \cup AsciiUpper \cup {"@", "!", "?"}

RECURSIVE ConcatRange(_, _, _)
\* "".join(f[lo], ..., f[hi])
ConcatRange(f, lo, hi) ==
  IF lo > hi THEN ""
  ELSE IF lo = hi THEN f[lo]
  ELSE LET mid == (lo + hi) \div 2
       IN  ConcatRange(f, lo, mid) \o ConcatRange(f, mid + 1, hi)

\* re.sub(r"\.([0-9A-Z...])", lambda m: ". " + m.group(1), s).  A match is a
\* period and the class character after it; matches cannot overlap, since
\* the second character of a match is never a period.
SpaceAfterDot(s) ==
  LET piece == [i \in 1..Len(s) |->
                 IF Ch(s, i) = "." /\ i < Len(s) /\ Ch(s, i + 1) \in UpperOrDigit
                 THEN ". " ELSE Ch(s, i)]
  IN  ConcatRange(piece, 1, Len(s))

\* re.sub(r"([0-9] [a-z][,.]?)", lambda m: m.group(1).replace(" ", ""), s).
\* A match starts at a digit and holds no other digit, so matches cannot
\* overlap: every space between a digit and a letter a-z is removed.
GlueHouseLetter(s) ==
  LET piece == [i \in 1..Len(s) |->
                 IF /\ Ch(s, i) = " " /\ 1 < i /\ i < Len(s)
                    /\ Ch(s, i - 1) \in Digits /\ Ch(s, i + 1) \in AsciiLower
                 THEN "" ELSE Ch(s, i)]
  IN  ConcatRange(piece, 1, Len(s))

RECURSIVE ApplyFrom(_, _, _)
\* The items k, k+1, ... of the table applied to s, in order.
ApplyFrom(s, table, k) ==
  IF k > Len(table) THEN s
  ELSE LET r == Replace(s, table[k][1], table[k][2])
       IN  IF Len(r) >= 0 THEN ApplyFrom(r, table, k + 1) ELSE r

\* for a, b in REPLACEMENTS.items(): s = s.replace(a, b)
ApplyReplacements(s, table) == ApplyFrom(s, table, 1)

\* s[-1] of the empty string raises IndexError.
cleanup_raises(s) == s = ""

\* A faulty cleanup_text, which C11 must tell from the real one: the sharp s
\* is kept.
cleanup_text_keeping_sharp_s(s) ==
  LET s1 == IF Ch(s, Len(s)) \in {":", "="} THEN SubSeq(s, 1, Len(s) - 1) \o "-" ELSE s
      s2 == Replace(Replace(s1, "|", "s"), "~", "-")
      s3 == SpaceAfterDot(s2)
      s4 == GlueHouseLetter(s3)
  IN  ApplyReplacements(s4, REPLACEMENTS)

cleanup_text(s) ==
  LET s1 == IF Ch(s, Len(s)) \in {":", "="} THEN SubSeq(s, 1, Len(s) - 1) \o "-" ELSE s
      s2 == Replace(Replace(Replace(s1, "|", "s"), "%", "ss"), "~", "-")
      s3 == SpaceAfterDot(s2)
      s4 == GlueHouseLetter(s3)
  IN  ApplyReplacements(s4, REPLACEMENTS)

(***************************************************************************)
(* Box and OCRLine (utils.py).                                             *)
(***************************************************************************)
Box(x, y, width, height) == [x |-> x, y |-> y, width |-> width, height |-> height]

OCRLine(page_id, column, text, box) ==
  [page_id |-> page_id, column |-> column, text |-> text, box |-> box]

Min2(a, b) == IF a <= b THEN a ELSE b

Max2(a, b) == IF a >= b THEN a ELSE b

\* A faulty union, which C8 must tell from Box.union: the right and lower
\* edges are taken from the first box alone.
union_keeping_edges(self, other) ==
  LET x1 == Min2(self.x, other.x)
      y1 == Min2(self.y, other.y)
  IN  Box(x1, y1, self.x + self.width - x1, self.y + self.height - y1)

\* Box.union
union(self, other) ==
  LET x1 == Min2(self.x, other.x)
      x2 == Max2(self.x + self.width, other.x + other.width)
      y1 == Min2(self.y, other.y)
      y2 == Max2(self.y + self.height, other.y + other.height)
      x1b == Min2(x1, x2)
      y1b == Min2(y1, y2)
      x2b == Max2(x1b, x2)
      y2b == Max2(y1b, y2)
  IN  Box(x1b, y1b, x2b - x1b, y2b - y1b)

(***************************************************************************)
(* The tables of split_v2.py and the reference tables of the Validator.    *)
(***************************************************************************)
COMPANY_ABBREVS == {
  "AG", "A.-G.", "Cie.", "Co.", "Comp.", "Compagnie", "Gebr.", "Gebr#der",
  "Gebr#d.", "& Cie.", "& Co.", "& Comp.", "& Cp.", "& Sohn", "& S}hne",
  "u. Cie.", "u. Comp." }

MAIDEN_NAME_PREFIXES == {"geb.", "gb.", "geborne", "geborene"}

NOBILITY_PREFIXES ==
  [w \in {"de", "De", "von", "Von", "v.", "V."} |->
     IF w \in {"de", "De"} THEN "de" ELSE "von"]

\* Validator.titles, in the order of the rows of titles.csv.
titles == <<"Frau", "Dr.", "Dr. med.", "Wittwe">>

\* Validator.given_names
given_names == {"Anna", "A.", "M.", "Hans"}

\* Validator.occupations
occupations == {"Lehrer", "Mal.", "Schnd.", "Spital"}

\* Validator.pois
pois == {"Bahnhof", "Spital"}

\* Validator.street_abbrevs
street_abbrevs == {"Metzg.", "Ag."}

\* Validator.streets
streets == {"Metzgergasse", "Aarbergergasse"}

(***************************************************************************)
(* Splitter (split_v2.py).  A function that returns a pair returns a       *)
(* record here; where the Python raises, <name>_raises tells so.           *)
(***************************************************************************)
\* n = p[0].replace(" -", "-").replace("- ", "-"); words = n.split()
name_words(text) ==
  Words(Replace(Replace(Split(text, ",")[1], " -", "-"), "- ", "-"))

\* A faulty name_pos, which C13 must tell from the real one: a nobility
\* particle is taken for the whole name.
name_pos_without_particles(words) == 0

\* pos after the first test: 1 if words[0] is a nobility particle.
name_pos(words) == IF words[1] \in DOMAIN NOBILITY_PREFIXES THEN 1 ELSE 0

\* words[0] and words[pos] raise IndexError when there is no such word.
split_name_raises(text) ==
  LET words == name_words(text)
  IN  \/ Len(words) = 0
      \/ name_pos(words) + 1 > Len(words)

\* name in "-–—": a substring test.
IsDashes(name) == Contains("-^_", name)

split_name(text) ==
  LET p == Split(text, ",")
      words == name_words(text)
      pos1 == name_pos(words)
      pos == IF \E q \in DOMAIN NOBILITY_PREFIXES : EndsWith(words[pos1 + 1], "-" \o q)
             THEN pos1 + 1 ELSE pos1
      words0 == IF words[1] \in DOMAIN NOBILITY_PREFIXES
                THEN NOBILITY_PREFIXES[words[1]] ELSE words[1]
      canon == [words EXCEPT ![1] = words0]
      joined == Join(Take(canon, pos + 1), " ")
      name == IF IsDashes(joined) THEN "_" ELSE joined
      rest_list == <<Join(Drop(canon, pos + 1), " ")>> \o Tail(p)
  IN  [name |-> name, rest |-> Join(MapStrip(FilterNonEmpty(rest_list)), ", ")]

\* The abbreviations the loop of split_company can return on: the set is
\* iterated in no fixed order.
company_matches(rest) == {a \in COMPANY_ABBREVS : StartsWith(rest, a)}

\* A faulty split_company, which C16 must tell from the real one: the comma
\* behind the abbreviation stays.
split_company_keeping_comma(name, rest, a) ==
  [company |-> name \o " " \o a, rest |-> Strip(RemovePrefix(rest, a))]

split_company_with(name, rest, a) ==
  [company |-> name \o " " \o a,
   rest |-> Strip(RemovePrefix(RemovePrefix(rest, a), ","))]

split_maiden_name_applies(text) ==
  \E q \in MAIDEN_NAME_PREFIXES : StartsWith(text, q)

\* words[0] raises IndexError when nothing follows the marker word.
split_maiden_name_raises(text) ==
  /\ split_maiden_name_applies(text)
  /\ Len(Words(Split(text, ",")[1])) <= 1

split_maiden_name(text) ==
  IF ~split_maiden_name_applies(text)
  THEN [maiden_name |-> "", rest |-> text]
  ELSE LET parts == Split(text, ",")
           words == Tail(Words(parts[1]))
           noble == Len(words) >= 2 /\ words[1] \in DOMAIN NOBILITY_PREFIXES
           maiden_name == IF noble
                          THEN NOBILITY_PREFIXES[words[1]] \o " " \o words[2]
                          ELSE words[1]
           rest_words == IF noble THEN Drop(words, 2) ELSE Drop(words, 1)
           p == IF Len(rest_words) > 0
                THEN <<Join(rest_words, " ")>> \o Tail(parts)
                ELSE Tail(parts)
       IN  [maiden_name |-> maiden_name, rest |-> Join(MapStrip(p), ", ")]

\* The first title of the table, in its order, that the text starts with.
split_title(text) ==
  LET hits == {n \in 1..Len(titles) : StartsWith(text, titles[n])}
  IN  IF hits = {} THEN [title |-> "", rest |-> text]
      ELSE LET title == titles[Min(hits)]
           IN  [title |-> title,
                rest |-> Strip(RemovePrefix(Strip(RemovePrefix(text, title)), ","))]

split_given_name(text) ==
  LET parts == MapStrip(Split(text, ","))
      words == Words(parts[1])
  IN  IF \A n \in 1..Len(words) : words[n] \in given_names
      THEN [given_name |-> parts[1], rest |-> Join(Tail(parts), ", ")]
      ELSE [given_name |-> "", rest |-> text]

\* The connectors "u." and "und" of the regular expressions, as the end
\* positions of a connector that starts at position k of s.
conn_ends(s, k) ==
  {e \in {k + 1, k + 2} :
     e <= Len(s) /\ SubSeq(s, k, e) \in {"u.", "und"}}

\* re.match(r"(.+) (u\.|und) (.+)", p): the groups p1 and p2.  The first
\* group is greedy, so of all ways to match the one with the longest p1 is
\* taken.
occupation_pairs(p) ==
  {<<k, e>> \in (2..Len(p)) \X (1..Len(p)) :
     /\ Ch(p, k - 1) = " "
     /\ k >= 3
     /\ e \in conn_ends(p, k)
     /\ Ch(p, e + 1) = " "
     /\ e + 2 <= Len(p)}

occupation_pair(p) ==
  LET ks == {m[1] : m \in occupation_pairs(p)}
      k == Max(ks)
      e == CHOOSE e \in conn_ends(p, k) : <<k, e>> \in occupation_pairs(p)
  IN  <<SubSeq(p, 1, k - 2), SubSeq(p, e + 2, Len(p))>>

\* What one part adds to found (and whether it goes to rest instead).
occupations_of(p) ==
  IF p \in occupations THEN <<p>>
  ELSE IF (p \o ".") \in occupations THEN <<p \o ".">>
  ELSE IF /\ occupation_pairs(p) # {}
          /\ occupation_pair(p)[1] \in occupations
          /\ occupation_pair(p)[2] \in occupations
       THEN occupation_pair(p)
       ELSE <<>>

RECURSIVE occupations_found(_)
occupations_found(parts) ==
  IF parts = <<>> THEN <<>>
  ELSE occupations_of(parts[1]) \o occupations_found(Tail(parts))

RECURSIVE occupations_rest(_)
occupations_rest(parts) ==
  IF parts = <<>> THEN <<>>
  ELSE (IF occupations_of(parts[1]) = <<>> THEN <<parts[1]>> ELSE <<>>)
       \o occupations_rest(Tail(parts))

split_occupations(text) ==
  LET parts == MapStrip(Split(text, ","))
  IN  [occupations |-> occupations_found(parts),
       rest |-> Join(occupations_rest(parts), ", ")]

\* A faulty is_street, which C19 must tell from the real one: every text
\* passes for a street.
is_street_for_any_text(s) == TRUE

is_street(s) == s \in street_abbrevs \/ s \in streets

\* \d+[a-t]?
IsNum(t) ==
  LET body == IF Len(t) >= 2 /\ Ch(t, Len(t)) \in Chars("abcdefghijklmnopqrst")
              THEN SubSeq(t, 1, Len(t) - 1) ELSE t
  IN  Len(body) >= 1 /\ \A n \in 1..Len(body) : Ch(body, n) \in Digits

\* The position of the last space of s, 0 if it has none.
LastSpace(s) == Max({0} \cup {n \in 1..Len(s) : Ch(s, n) = " "})

\* The one element of a set of lists that has at most one, else the empty list.
OnlyOne(S) == IF S = {} THEN <<>> ELSE CHOOSE r \in S : TRUE

\* The first list of a list of lists that is not empty, else the empty list.
FirstNonEmpty(ss) ==
  OnlyOne({ss[n] : n \in {m \in 1..Len(ss) :
                            /\ ss[m] # <<>>
                            /\ \A j \in 1..(m - 1) : ss[j] = <<>>}})

\* return [f"{street} {num}"] if is_street(street)
street_and_number(street, num) ==
  IF is_street(street) THEN <<street \o " " \o num>> ELSE <<>>

\* m := re.match(r"^(.+) (\d+[a-t]?)\.?$", addr): the number is what follows
\* the last space, without its final period.
single_number(tail) ==
  IF EndsWith(tail, ".") /\ ~IsNum(tail) THEN SubSeq(tail, 1, Len(tail) - 1) ELSE tail

single_at(addr, n) ==
  IF n >= 2 /\ IsNum(single_number(SubSeq(addr, n + 1, Len(addr))))
  THEN street_and_number(SubSeq(addr, 1, n - 1),
                         single_number(SubSeq(addr, n + 1, Len(addr))))
  ELSE <<>>

address_single(addr) == single_at(addr, LastSpace(addr))

\* The common head ^(.+) (\d+[a-t]?)\s?(u\.|und) of the three compound
\* forms: every way to match it, with what follows the connector.
address_heads(addr) ==
  {[street |-> SubSeq(addr, 1, q[1] - 1),
    num |-> SubSeq(addr, q[1] + 1, q[2] - 1 - q[4]),
    after |-> SubSeq(addr, q[2] + q[3] + 1, Len(addr))] :
     q \in {q \in (2..Len(addr)) \X (3..Len(addr)) \X {1, 2} \X {0, 1} :
              /\ Ch(addr, q[1]) = " "
              /\ q[2] - 1 - q[4] > q[1]
              /\ (q[2] + q[3]) \in conn_ends(addr, q[2])
              /\ q[4] = 1 => IsSpace(Ch(addr, q[2] - 1))
              /\ IsNum(SubSeq(addr, q[1] + 1, q[2] - 1 - q[4]))}}

\* Of the heads whose tail matches, the regular expression takes the one
\* with the longest first group.
longest_street(hs) == {h \in hs : \A g \in hs : Len(g.street) <= Len(h.street)}

\* ... (u\.|und) (\d+[a-t]?)$
two_numbers(h) ==
  IF is_street(h.street)
  THEN <<h.street \o " " \o h.num, h.street \o " " \o Tail(h.after)>>
  ELSE <<>>

address_two_numbers(addr) ==
  OnlyOne({two_numbers(h) : h \in longest_street(
     {h \in address_heads(addr) : Ch(h.after, 1) = " " /\ IsNum(Tail(h.after))})})

\* ... (u\.|und) (.+) (\d+[a-t]?)$
two_streets(h, n) ==
  IF is_street(h.street) /\ is_street(SubSeq(h.after, 2, n - 1))
  THEN <<h.street \o " " \o h.num,
         SubSeq(h.after, 2, n - 1) \o " " \o SubSeq(h.after, n + 1, Len(h.after))>>
  ELSE <<>>

address_two_streets(addr) ==
  OnlyOne({two_streets(h, LastSpace(h.after)) : h \in longest_street(
     {h \in address_heads(addr) :
        /\ Ch(h.after, 1) = " "
        /\ LastSpace(h.after) >= 3
        /\ IsNum(SubSeq(h.after, LastSpace(h.after) + 1, Len(h.after)))})})

\* ... (u\.|und)\s?(.+)$
poi_of(after) ==
  IF IsSpace(Ch(after, 1)) /\ Len(after) >= 2 THEN Tail(after) ELSE after

street_poi(h) ==
  IF is_street(h.street) /\ poi_of(h.after) \in pois
  THEN <<h.street \o " " \o h.num, poi_of(h.after)>>
  ELSE <<>>

address_street_poi(addr) ==
  OnlyOne({street_poi(h) : h \in longest_street(
     {h \in address_heads(addr) : Len(h.after) >= 1})})

\* A faulty cleanup_address, which C2 must tell from the real one: a point
\* of interest is not taken as an address.
cleanup_address_without_pois(addr) ==
  FirstNonEmpty(<<address_single(addr), address_two_numbers(addr),
                  address_two_streets(addr), address_street_poi(addr)>>)

cleanup_address(addr) ==
  IF addr \in pois THEN <<addr>>
  ELSE FirstNonEmpty(<<address_single(addr), address_two_numbers(addr),
                       address_two_streets(addr), address_street_poi(addr)>>)

\* A faulty end of split_addresses, which C1 must tell from the real one:
\* the last segment goes whether it held an address or not.
addresses_and_rest_dropping_last(addrs, p, final_addrs) ==
  [addresses |-> addrs \o final_addrs, rest |-> Join(Take(p, Len(p) - 1), ", ")]

\* The end of split_addresses: p is what is left after the first segment
\* was looked at, final_addrs the addresses of its last segment.
addresses_and_rest(addrs, p, final_addrs) ==
  [addresses |-> addrs \o final_addrs,
   rest |-> Join(IF Len(final_addrs) > 0 THEN Take(p, Len(p) - 1) ELSE p, ", ")]

addresses_last(addrs, p) ==
  addresses_and_rest(addrs, p,
    IF Len(p) > 0 THEN cleanup_address(p[Len(p)]) ELSE <<>>)

\* A faulty split_addresses, which C20 must tell from the real one: the
\* first segment stays in the list after its addresses are taken.
addresses_first_kept(p, addrs) == addresses_last(addrs, p)

addresses_first(p, addrs) ==
  addresses_last(addrs, IF Len(addrs) > 0 THEN Tail(p) ELSE p)

addresses_of(p) == addresses_first(p, cleanup_address(p[1]))

split_addresses(text) == addresses_of(MapStrip(Split(text, ",")))

(***************************************************************************)
(* State.                                                                  *)
(***************************************************************************)
VARIABLES
  pc,        \* the statement the program is at
  err,       \* the exception that ended the call, "" if none
  lines,     \* merge_lines: its argument
  idx,       \* merge_lines: position of the for loop in lines, from 1
  column_x,  \* merge_lines: the column's left margin
  result,    \* merge_lines: the list being built
  sources,   \* history: for each line of result, the positions in lines merged into it
  text_in,   \* cleanup_text applied twice: the input
  text_one,  \* cleanup_text(text_in)
  text_two,  \* cleanup_text(text_one)
  all_lines, \* Splitter.split: its argument
  todo,      \* Splitter.split: the (page_id, column) pairs still to do, sorted
  split_result,  \* Splitter.split: result
  ret,       \* who called merge_lines: "split_column", or "" for nobody
  column_lines, \* split_column: lines after merge_lines
  line_no,   \* split_column: position of the for loop in column_lines, from 1
  lemma,     \* split_column: lemma
  min_x,     \* split_column: min_x
  max_x,     \* split_column: max_x
  cur,       \* split_column: name, rest and the fields found so far for that line
  column_result, \* split_column: result
  log,       \* history: the steps applied to the line at line_no, each with its input and remainder
  entry,     \* the AddressBookEntry that to_dict is called on
  entry_dict, \* the dict made by to_dict and passed to validate
  fn,        \* a method of the Splitter called on its own: its name
  arg,       \* its argument (a record where it takes two)
  out,       \* what it returned
  files,     \* Validator(): the rows of the reference files, by file name
  validator, \* Validator(): the tables of the object under construction
  entry_in,  \* validate, normalize_person, normalize_company: the entry passed
  pos_arg,   \* validate: pos, a (file, line) pair or None
  bad,       \* validate: the set of field names being collected
  num_warnings, \* Validator._num_warnings
  warnings,  \* history: the messages passed to warn, in order
  stats,     \* Validator._missing_family_names, _missing_given_names, _missing_occupations, _occupation_counts
  unknown_addresses_before_1882, \* Validator.unknown_addresses_before_1882
  normalized, \* what normalize_person or normalize_company returned
  misses,    \* history: the addresses that missed the reform table, in order
  calls,     \* the number of normalize calls made so far
  script,    \* the cleanup script that rewrites the volume
  volume,    \* the lines on disk under the volume's path
  tmp,       \* the lines on disk under the path of the temporary file
  buffer,    \* the lines written to the open file and not yet on disk
  content,   \* the lines the script holds in memory
  original,  \* history: the lines of the volume before the script ran
  outfile    \* the file that is open for writing: "tmp", "volume", or "" for none

merge_vars == <<lines, idx, column_x, result, sources>>

cleanup_vars == <<text_in, text_one, text_two>>

split_vars == <<all_lines, todo, split_result, ret, column_lines, line_no, lemma, min_x,
                max_x, cur, column_result, log>>

dict_vars == <<entry, entry_dict>>

call_vars == <<fn, arg, out>>

load_vars == <<files, validator>>

validate_vars == <<entry_in, pos_arg, bad, num_warnings, warnings, stats>>

normalize_vars == <<unknown_addresses_before_1882, normalized, misses, calls>>

rewrite_vars == <<script, volume, tmp, buffer, content, original, outfile>>

validator_vars == <<load_vars, validate_vars, normalize_vars, rewrite_vars>>

splitter_vars == <<merge_vars, cleanup_vars, split_vars, dict_vars, call_vars>>

vars == <<pc, err, splitter_vars, validator_vars>>

(***************************************************************************)
(* merge_lines (split_v2.py).                                              *)
(***************************************************************************)
\* re.match(r"^[A-Z]\.$", text)
IsInitial(text) == Len(text) = 2 /\ Ch(text, 1) \in AsciiUpper /\ Ch(text, 2) = "."

HYPHENS == {"~", "-", "="}

INDENT == 70

FAR_RIGHT == 200

\* if x > 200 and re.match(r"^[A-Z]\.$", line.text): continue
is_discarded(x, text) == x > FAR_RIGHT /\ IsInitial(text)

\* A faulty test, which C9 must tell from starts_new_line: an offset of
\* exactly 70 starts a new line too.
starts_new_line_at_indent(x, last_is_none) == x <= INDENT \/ last_is_none

\* if x < 70 or last is None: the line starts a new logical line.
starts_new_line(x, last_is_none) == x < INDENT \/ last_is_none

\* Two faulty joins, which C6 and C7 must tell from merged_text: one joins
\* with a space also after a hyphen, the other never puts the space before
\* "und" and "u.".
merged_text_spaced(last_text, text) == Join(Words(last_text \o " " \o text), " ")

merged_text_glued(last_text, text) ==
  IF \E c \in HYPHENS : EndsWith(last_text, c)
  THEN SubSeq(last_text, 1, Len(last_text) - 1) \o text
  ELSE Join(Words(last_text \o " " \o text), " ")

\* The text of the merged line, from the text of result[-1] and the cleaned text.
merged_text(last_text, text) ==
  LET sep == IF StartsWith(text, "und") \/ StartsWith(text, "u.") THEN " " ELSE ""
  IN  IF \E c \in HYPHENS : EndsWith(last_text, c)
      THEN SubSeq(last_text, 1, Len(last_text) - 1) \o sep \o text
      ELSE Join(Words(last_text \o " " \o text), " ")

\* merge_lines up to the loop: the empty list returns at once, the two
\* assertions, the left margin.
MergeBegin ==
  /\ pc = "merge_lines"
  /\ result' = <<>>
  /\ sources' = <<>>
  /\ idx' = 1
  /\ IF Len(lines) = 0
     THEN /\ pc' = "merge_return"
          /\ UNCHANGED <<err, column_x>>
     ELSE IF \E n \in 1..Len(lines) :
               \/ lines[n].page_id # lines[1].page_id
               \/ lines[n].column # lines[1].column
          THEN /\ pc' = "raised"
               /\ err' = "AssertionError"
               /\ UNCHANGED column_x
          ELSE /\ pc' = "merge_loop"
               /\ column_x' = Min({lines[n].box.x : n \in 1..Len(lines)})
               /\ UNCHANGED err
  /\ UNCHANGED <<call_vars, validator_vars, lines, cleanup_vars, split_vars, dict_vars>>

\* One pass of the for loop of merge_lines.
MergeLine ==
  /\ pc = "merge_loop"
  /\ idx <= Len(lines)
  /\ LET line == lines[idx]
         x == line.box.x - column_x
     IN  IF cleanup_raises(line.text)
         THEN /\ pc' = "raised"
              /\ err' = "IndexError"
              /\ UNCHANGED <<idx, result, sources>>
         ELSE LET text == cleanup_text(line.text)
              IN  /\ idx' = idx + 1
                  /\ UNCHANGED <<pc, err>>
                  /\ IF is_discarded(x, line.text)
                     THEN UNCHANGED <<result, sources>>
                     ELSE IF starts_new_line(x, Len(result) = 0)
                     THEN /\ result' = Append(result,
                               OCRLine(line.page_id, line.column, text, line.box))
                          /\ sources' = Append(sources, <<idx>>)
                     ELSE LET last == result[Len(result)]
                              merged == OCRLine(line.page_id, line.column,
                                                merged_text(last.text, text),
                                                union(last.box, line.box))
                          IN  /\ result' = [result EXCEPT ![Len(result)] = merged]
                              /\ sources' = [sources EXCEPT ![Len(result)] = Append(@, idx)]
  /\ UNCHANGED <<call_vars, validator_vars, lines, column_x, cleanup_vars, split_vars, dict_vars>>

\* The for loop of merge_lines is over: return result.
MergeEnd ==
  /\ pc = "merge_loop"
  /\ idx > Len(lines)
  /\ pc' = "merge_return"
  /\ UNCHANGED <<call_vars, validator_vars, err, merge_vars, cleanup_vars, split_vars, dict_vars>>

(***************************************************************************)
(* merge_lines called on its own, on lists of lines drawn from a pool.     *)
(***************************************************************************)
MaxLines == 3

\* Sample OCR lines: raw text as the OCR gives it, boxes at the offsets
\* 0, 69, 70, 200 and 201 from the left margin 300.
SampleLines == {
  OCRLine(7, 1, "Adam,  Wittwe,", Box(300, 10, 600, 50)),
  OCRLine(7, 1, "Aarberger:", Box(300, 200, 400, 50)),
  OCRLine(7, 1, "_ Schwe|t., Mal.,", Box(369, 250, 480, 60)),
  OCRLine(7, 1, "Po|t~", Box(370, 60, 500, 40)),
  OCRLine(7, 1, "ga||e 44", Box(400, 100, 170, 45)),
  OCRLine(7, 1, "und Mal.", Box(500, 140, 90, 40)),
  OCRLine(7, 1, "B.", Box(500, 20, 30, 25)),
  OCRLine(7, 1, "A.", Box(501, 150, 30, 20)),
  OCRLine(7, 2, "Meier, Frau", Box(900, 10, 500, 50)) }

SeqsUpTo(S, n) == UNION {[1..k -> S] : k \in 0..n}

\* The variables of merge_lines, of the double cleanup_text, of
\* Splitter.split and of to_dict before any of them has run.
MergeIdle ==
  /\ idx = 1
  /\ column_x = 0
  /\ result = <<>>
  /\ sources = <<>>

CleanupIdle ==
  /\ text_in = ""
  /\ text_one = ""
  /\ text_two = ""

NoEntry == [id |-> 0]

SplitIdle ==
  /\ todo = <<>>
  /\ split_result = <<>>
  /\ ret = ""
  /\ column_lines = <<>>
  /\ line_no = 1
  /\ lemma = ""
  /\ min_x = 0
  /\ max_x = 0
  /\ cur = NoEntry
  /\ column_result = <<>>
  /\ log = <<>>

CallIdle ==
  /\ fn = ""
  /\ arg = ""
  /\ out = ""

DictIdle ==
  /\ entry = NoEntry
  /\ entry_dict = <<>>

\* The variables of the Validator and of the cleanup scripts before any of
\* them has run.
LoadIdle ==
  /\ files = <<>>
  /\ validator = <<>>

ValidateIdle ==
  /\ entry_in = <<>>
  /\ pos_arg = <<>>
  /\ bad = {}
  /\ num_warnings = 0
  /\ warnings = <<>>
  /\ stats = <<>>

NormalizeIdle ==
  /\ unknown_addresses_before_1882 = <<>>
  /\ normalized = <<>>
  /\ misses = <<>>
  /\ calls = 0

RewriteIdle ==
  /\ script = ""
  /\ volume = <<>>
  /\ tmp = <<>>
  /\ buffer = <<>>
  /\ content = <<>>
  /\ original = <<>>
  /\ outfile = ""

ValidatorIdle == LoadIdle /\ ValidateIdle /\ NormalizeIdle /\ RewriteIdle

InitMerge ==
  /\ pc = "merge_lines"
  /\ err = ""
  /\ lines \in SeqsUpTo(SampleLines, MaxLines)
  /\ MergeIdle
  /\ CleanupIdle
  /\ all_lines = <<>>
  /\ SplitIdle
  /\ ValidatorIdle
  /\ DictIdle
  /\ CallIdle

NextMerge == MergeBegin \/ MergeLine \/ MergeEnd

SpecMerge == InitMerge /\ [][NextMerge]_vars

(***************************************************************************)
(* What the claims about merge_lines speak of, stated on the argument      *)
(* `lines` alone.                                                          *)
(***************************************************************************)
LeftMargin == Min({lines[n].box.x : n \in 1..Len(lines)})

Offset(n) == lines[n].box.x - LeftMargin

CapitalAndPeriod(t) == Len(t) = 2 /\ Ch(t, 1) \in AsciiUpper /\ Ch(t, 2) = "."

Discarded(n) == Offset(n) > 200 /\ CapitalAndPeriod(lines[n].text)

\* The lines before position upto that are not discarded.
Kept(upto) == {n \in 1..(upto - 1) : ~Discarded(n)}

\* Those of them that start a logical line.
Starters(upto) ==
  {n \in Kept(upto) : Offset(n) < 70 \/ n = Min(Kept(upto))}

\* The lines that belong to the logical line started by s.
Group(s, upto) ==
  {n \in Kept(upto) : n >= s /\ \A t \in Starters(upto) : t > s => n < t}

RECURSIVE SortedSeq(_)
SortedSeq(S) == IF S = {} THEN <<>> ELSE <<Min(S)>> \o SortedSeq(S \ {Min(S)})

BoundingBox(S) ==
  LET x1 == Min({lines[n].box.x : n \in S})
      y1 == Min({lines[n].box.y : n \in S})
      x2 == Max({lines[n].box.x + lines[n].box.width : n \in S})
      y2 == Max({lines[n].box.y + lines[n].box.height : n \in S})
  IN  Box(x1, y1, x2 - x1, y2 - y1)

InMerge == pc \in {"merge_loop", "merge_return"} /\ Len(lines) > 0

EndsInMarker(t) == \E c \in {"-", "=", ":", "~"} : EndsWith(t, c)

TwoFragments ==
  /\ pc = "merge_return"
  /\ Len(lines) = 2
  /\ lines[1] # lines[2]
  /\ EndsInMarker(lines[1].text)

\* C6 as stated: two fragments at the same x, the first ending in a
\* hyphenation marker, come out as one line: the first text without the
\* marker directly followed by the second text, the box the union of both.
C6_same_x_merged ==
  (TwoFragments /\ lines[1].box.x = lines[2].box.x)
    => /\ Len(result) = 1
       /\ result[1].text = SubSeq(lines[1].text, 1, Len(lines[1].text) - 1) \o lines[2].text
       /\ result[1].box = BoundingBox({1, 2})

\* C6 amended: the second fragment indented by 70 or more against the first
\* and not a discarded initial: one line comes out; its text is the cleaned
\* first text without its final hyphen, directly followed by the cleaned
\* second text (one space between them only if the latter starts with "und"
\* or "u."); its box is the union of both boxes.
C6_indented_merged ==
  (/\ TwoFragments
   /\ lines[2].box.x - lines[1].box.x >= 70
   /\ ~Discarded(2))
    => LET first == cleanup_text(lines[1].text)
           second == cleanup_text(lines[2].text)
           glue == IF StartsWith(second, "und") \/ StartsWith(second, "u.")
                   THEN " " ELSE ""
       IN  /\ Len(result) = 1
           /\ EndsWith(first, "-")
           /\ result[1].text = SubSeq(first, 1, Len(first) - 1) \o glue \o second
           /\ result[1].box = BoundingBox({1, 2})
           /\ result[1].page_id = lines[1].page_id
           /\ result[1].column = lines[1].column

C6_witness ==
  /\ TwoFragments
  /\ lines[2].box.x - lines[1].box.x >= 70
  /\ ~Discarded(2)
  /\ lines[1].text = "Po|t~"
  /\ Len(result) = 1
  /\ result[1].text = "PostA."

NoSpaceRuns(t) ==
  /\ ~Contains(t, "  ")
  /\ ~StartsWith(t, " ")
  /\ ~EndsWith(t, " ")

\* The line at idx is a continuation: kept, indented, and something to append to.
Continuation ==
  /\ pc = "merge_loop"
  /\ idx <= Len(lines)
  /\ ~Discarded(idx)
  /\ Offset(idx) >= 70
  /\ Len(result) > 0

\* C7: a kept line at offset 70 or more that follows an accumulated line is
\* appended to it and starts no new line; after '-', '=' or the double
\* hyphen that one character goes and the cleaned text follows without a
\* space (one space before "und" or "u."); otherwise the texts are joined by
\* one space, with whitespace runs collapsed.
C7_continuation_appended ==
  [][Continuation =>
      LET last_text == result[Len(result)].text
          text == cleanup_text(lines[idx].text)
          new_text == result'[Len(result)].text
      IN  /\ Len(result') = Len(result)
          /\ \A j \in 1..(Len(result) - 1) : result'[j] = result[j]
          /\ IF \E c \in {"-", "=", "~"} : EndsWith(last_text, c)
             THEN IF StartsWith(text, "und") \/ StartsWith(text, "u.")
                  THEN new_text = SubSeq(last_text, 1, Len(last_text) - 1) \o " " \o text
                  ELSE new_text = SubSeq(last_text, 1, Len(last_text) - 1) \o text
             ELSE /\ NoSpaceRuns(new_text)
                  /\ Words(new_text) = Words(last_text) \o Words(text)]_vars

C7_witness ==
  /\ pc = "merge_loop"
  /\ Len(result) = 1
  /\ Len(lines) = 3
  /\ sources[1] = <<1, 2, 3>>
  /\ result[1].text = "Adam, Wittwe, Post und Mal."

\* C8: the box of every line of the result is the bounding rectangle of the
\* boxes of exactly the input lines merged into it, which are the kept
\* lines of its group; a capital letter and a period at an offset above
\* 200 is in no group, gives no text and starts no line.
C8_box_is_union ==
  InMerge =>
    LET starters == SortedSeq(Starters(idx))
    IN  /\ Len(result) = Len(starters)
        /\ \A j \in 1..Len(result) :
             /\ sources[j] = SortedSeq(Group(starters[j], idx))
             /\ result[j].box = BoundingBox(Group(starters[j], idx))
        /\ \A n \in 1..(idx - 1) :
             Discarded(n) => \A j \in 1..Len(sources) :
                               \A m \in 1..Len(sources[j]) : sources[j][m] # n

C8_witness ==
  /\ pc = "merge_return"
  /\ Len(lines) = 3
  /\ Discarded(2)
  /\ Len(result) = 1
  /\ sources[1] = <<1, 3>>
  /\ result[1].box # lines[1].box

\* C9: one logical line for each kept line at an offset below 70, one more
\* if the first kept line is at 70 or more; in the order of the lines that
\* started them; empty exactly for the empty input.
C9_line_count ==
  pc = "merge_return" =>
    /\ (result = <<>>) <=> (lines = <<>>)
    /\ Len(lines) > 0 =>
         LET kept == Kept(Len(lines) + 1)
             below == {n \in kept : Offset(n) < 70}
             extra == IF kept # {} /\ Offset(Min(kept)) >= 70 THEN 1 ELSE 0
             starters == SortedSeq(below \cup (IF extra = 1 THEN {Min(kept)} ELSE {}))
         IN  /\ Len(result) = Cardinality(below) + extra
             /\ \A j \in 1..Len(result) :
                  /\ Head(sources[j]) = starters[j]
                  /\ Len(sources[j]) = 1 =>
                       /\ result[j].text = cleanup_text(lines[starters[j]].text)
                       /\ result[j].box = lines[starters[j]].box

C9_witness ==
  /\ pc = "merge_return"
  /\ Len(lines) = 3
  /\ Discarded(1)
  /\ Offset(2) >= 70
  /\ Offset(3) < 70
  /\ Len(result) = 2

(***************************************************************************)
(* cleanup_text applied to a text, and again to its own output.            *)
(***************************************************************************)
CleanOnce ==
  /\ pc = "cleanup_text"
  /\ IF cleanup_raises(text_in)
     THEN /\ pc' = "raised"
          /\ err' = "IndexError"
          /\ UNCHANGED text_one
     ELSE /\ pc' = "cleaned_once"
          /\ text_one' = cleanup_text(text_in)
          /\ UNCHANGED err
  /\ UNCHANGED <<call_vars, validator_vars, text_in, text_two, merge_vars, split_vars, dict_vars>>

CleanTwice ==
  /\ pc = "cleaned_once"
  /\ IF cleanup_raises(text_one)
     THEN /\ pc' = "raised"
          /\ err' = "IndexError"
          /\ UNCHANGED text_two
     ELSE /\ pc' = "cleaned_twice"
          /\ text_two' = cleanup_text(text_one)
          /\ UNCHANGED err
  /\ UNCHANGED <<call_vars, validator_vars, text_in, text_one, merge_vars, split_vars, dict_vars>>

MaxPieces == 3

\* What the two regexes and the first rule look at, and the archaic glyphs.
Pieces == {".", " ", ",", "8", "b", "A", "I", ":", "=", "~", "%", "|"}

PieceTexts(n) ==
  {ConcatRange(q, 1, Len(q)) : q \in UNION {[1..k -> Pieces] : k \in 1..n}}

\* Every key and value of the table, alone and followed by another one.
TableTexts ==
  LET kv == {REPLACEMENTS[k][1] : k \in 1..Len(REPLACEMENTS)}
              \cup {REPLACEMENTS[k][2] : k \in 1..Len(REPLACEMENTS)}
  IN  kv \cup {a \o b : a \in kv, b \in kv}

\* The inputs of test_cleanup_text, and one text that every rule changes.
TestTexts == {"|tra%~", "Aarberger:", "Aarberger=", "R{fichgaffe 8 b",
              "Mtzg. 8 b u. 9", "Igfr.Nent, Casinoplag 8 b"}

InitCleanup ==
  /\ pc = "cleanup_text"
  /\ err = ""
  /\ text_in \in PieceTexts(MaxPieces) \cup TableTexts \cup TestTexts
  /\ text_one = ""
  /\ text_two = ""
  /\ lines = <<>>
  /\ MergeIdle
  /\ all_lines = <<>>
  /\ SplitIdle
  /\ ValidatorIdle
  /\ DictIdle
  /\ CallIdle

NextCleanup == CleanOnce \/ CleanTwice

SpecCleanup == InitCleanup /\ [][NextCleanup]_vars

\* C10: on an ASCII text that does not end in ':' or '=', cleaning the
\* cleaned text changes nothing.
C10_idempotent ==
  (/\ pc = "cleaned_twice"
   /\ IsAscii(text_in)
   /\ ~EndsWith(text_in, ":")
   /\ ~EndsWith(text_in, "="))
    => text_two = text_one

C10_witness ==
  /\ pc = "cleaned_twice"
  /\ text_in = "Igfr.Nent, Casinoplag 8 b"
  /\ text_one = "Jgfr. Rent, Casinoplatz 8b"
  /\ text_two = text_one

(***************************************************************************)
(* Splitter.split and Splitter.split_column (split_v2.py).                 *)
(***************************************************************************)
\* sorted(columns): pairs (page_id, column) in lexicographic order.
PairBefore(a, b) == a[1] < b[1] \/ (a[1] = b[1] /\ a[2] <= b[2])

RECURSIVE SortedPairs(_)
SortedPairs(S) ==
  IF S = {} THEN <<>>
  ELSE LET m == CHOOSE a \in S : \A b \in S : PairBefore(a, b)
       IN  <<m>> \o SortedPairs(S \ {m})

\* sorted(lines, key=lambda l: l.box.y): a stable sort.
RECURSIVE SortByY(_)
SortByY(ls) ==
  IF ls = <<>> THEN <<>>
  ELSE LET y == Min({ls[n].box.y : n \in 1..Len(ls)})
           i == Min({n \in 1..Len(ls) : ls[n].box.y = y})
       IN  <<ls[i]>> \o SortByY(SubSeq(ls, 1, i - 1) \o SubSeq(ls, i + 1, Len(ls)))

AddressBookEntry(id, page_id, box, family_name, given_name, maiden_name, nobility_name, title, occs, addresses, workplace, unrecognized) ==
  [id |-> id, page_id |-> page_id, box |-> box, family_name |-> family_name,
   given_name |-> given_name, maiden_name |-> maiden_name,
   nobility_name |-> nobility_name, title |-> title, occupations |-> occs,
   addresses |-> addresses, workplace |-> workplace, unrecognized |-> unrecognized]

\* One step of the pipeline as the history keeps it.
Step(name, input, got, rest) ==
  [step |-> name, input |-> input, got |-> got, rest |-> rest]

\* Splitter.split up to its loop.
SplitBegin ==
  /\ pc = "split"
  /\ split_result' = <<>>
  /\ todo' = SortedPairs({<<all_lines[n].page_id, all_lines[n].column>> :
                            n \in 1..Len(all_lines)})
  /\ pc' = "split_loop"
  /\ UNCHANGED <<call_vars, validator_vars, err, merge_vars, cleanup_vars, dict_vars, all_lines, ret,
                 column_lines, line_no, lemma, min_x, max_x, cur, column_result, log>>

\* The next column: split_column up to its call of merge_lines.
SplitColumn ==
  /\ pc = "split_loop"
  /\ todo # <<>>
  /\ LET col_lines == SelectSeq(all_lines,
           LAMBDA l : l.page_id = Head(todo)[1] /\ l.column = Head(todo)[2])
     IN  lines' = SortByY(col_lines)
  /\ todo' = Tail(todo)
  /\ column_result' = <<>>
  /\ lemma' = ""
  /\ ret' = "split_column"
  /\ pc' = "merge_lines"
  /\ UNCHANGED <<call_vars, validator_vars, err, idx, column_x, result, sources, cleanup_vars, dict_vars,
                 all_lines, split_result, column_lines, line_no, min_x, max_x,
                 cur, log>>

\* All columns done: return result.
SplitReturn ==
  /\ pc = "split_loop"
  /\ todo = <<>>
  /\ pc' = "split_return"
  /\ UNCHANGED <<call_vars, validator_vars, err, merge_vars, cleanup_vars, split_vars, dict_vars>>

\* split_column with the right edge of the first line as max_x.
column_max_x_of_first_line(ls) == ls[1].box.x + ls[1].box.width

\* split_column: min_x and max_x of the lines that merge_lines returned
column_min_x(ls) == Min({ls[n].box.x : n \in 1..Len(ls)})

column_max_x(ls) == Max({ls[n].box.x + ls[n].box.width : n \in 1..Len(ls)})

\* merge_lines has returned to split_column: min_x and max_x of its lines.
ColumnMerged ==
  /\ pc = "merge_return"
  /\ ret = "split_column"
  /\ ret' = ""
  /\ column_lines' = result
  /\ line_no' = 1
  /\ IF result = <<>>
     THEN /\ pc' = "raised"
          /\ err' = "ValueError"
          /\ UNCHANGED <<min_x, max_x>>
     ELSE /\ min_x' = column_min_x(result)
          /\ max_x' = column_max_x(result)
          /\ pc' = "column_loop"
          /\ UNCHANGED err
  /\ UNCHANGED <<call_vars, validator_vars, merge_vars, cleanup_vars, dict_vars, all_lines, todo,
                 split_result, lemma, cur, column_result, log>>

\* The loop of split_column is over: split extends its result.
ColumnDone ==
  /\ pc = "column_loop"
  /\ line_no > Len(column_lines)
  /\ split_result' = split_result \o column_result
  /\ pc' = "split_loop"
  /\ UNCHANGED <<call_vars, validator_vars, err, merge_vars, cleanup_vars, dict_vars, all_lines, todo, ret,
                 column_lines, line_no, lemma, min_x, max_x, cur, column_result, log>>

\* A faulty lemma, which C15 must tell from the real one: the whole name,
\* not its part before the first hyphen.
next_lemma_whole_name(name, old) == IF name = "_" THEN old ELSE name

\* The lemma after a line: kept after a dash, else the part of the name
\* before its first hyphen.
next_lemma(name, old) == IF name = "_" THEN old ELSE Strip(Split(name, "-")[1])

\* name, rest = self.split_name(line.text), and the lemma.
SplitName ==
  /\ pc = "column_loop"
  /\ line_no <= Len(column_lines)
  /\ LET text == column_lines[line_no].text
     IN  IF split_name_raises(text)
         THEN /\ pc' = "raised"
              /\ err' = "IndexError"
              /\ UNCHANGED <<cur, lemma, log>>
         ELSE LET r == split_name(text)
              IN  /\ cur' = [name |-> IF r.name = "_" THEN lemma ELSE r.name,
                             rest |-> r.rest, maiden_name |-> "", title |-> "",
                             given_name |-> "", addresses |-> <<>>,
                             occupations |-> <<>>]
                  /\ lemma' = next_lemma(r.name, lemma)
                  /\ log' = <<Step("split_name", text, r.name, r.rest)>>
                  /\ pc' = "split_company"
                  /\ UNCHANGED err
  /\ UNCHANGED <<call_vars, validator_vars, merge_vars, cleanup_vars, dict_vars, all_lines, todo,
                 split_result, ret, column_lines, line_no, min_x, max_x,
                 column_result>>

\* company, rest = self.split_company(name, rest): the set of abbreviations
\* is gone through in any order, the first that fits is taken.
SplitCompany ==
  /\ pc = "split_company"
  /\ IF company_matches(cur.rest) = {}
     THEN /\ log' = Append(log, Step("split_company", cur.rest, "", cur.rest))
          /\ pc' = "split_maiden_name"
          /\ UNCHANGED cur
     ELSE \E a \in company_matches(cur.rest) :
            LET r == split_company_with(cur.name, cur.rest, a)
            IN  /\ cur' = [cur EXCEPT !.name = r.company, !.rest = r.rest,
                                      !.maiden_name = "", !.title = "[Firma]"]
                /\ log' = Append(log, Step("split_company", cur.rest, r.company, r.rest))
                /\ pc' = "split_given_name"
  /\ UNCHANGED <<call_vars, validator_vars, err, merge_vars, cleanup_vars, dict_vars, all_lines, todo,
                 split_result, ret, column_lines, line_no, lemma, min_x, max_x,
                 column_result>>

\* maiden_name, rest = self.split_maiden_name(rest)
SplitMaidenName ==
  /\ pc = "split_maiden_name"
  /\ IF split_maiden_name_raises(cur.rest)
     THEN /\ pc' = "raised"
          /\ err' = "IndexError"
          /\ UNCHANGED <<cur, log>>
     ELSE LET r == split_maiden_name(cur.rest)
          IN  /\ cur' = [cur EXCEPT !.maiden_name = r.maiden_name, !.rest = r.rest]
              /\ log' = Append(log, Step("split_maiden_name", cur.rest,
                                         r.maiden_name, r.rest))
              /\ pc' = "split_title"
              /\ UNCHANGED err
  /\ UNCHANGED <<call_vars, validator_vars, merge_vars, cleanup_vars, dict_vars, all_lines, todo,
                 split_result, ret, column_lines, line_no, lemma, min_x, max_x,
                 column_result>>

\* title, rest = self.split_title(rest), at either place.
TitleStep(next_pc) ==
  LET r == split_title(cur.rest)
  IN  /\ cur' = [cur EXCEPT !.title = r.title, !.rest = r.rest]
      /\ log' = Append(log, Step("split_title", cur.rest, r.title, r.rest))
      /\ pc' = next_pc
      /\ UNCHANGED <<call_vars, validator_vars, err, merge_vars, cleanup_vars, dict_vars, all_lines, todo,
                     split_result, ret, column_lines, line_no, lemma, min_x,
                     max_x, column_result>>

SplitTitle ==
  /\ pc = "split_title"
  /\ TitleStep("split_given_name")

\* given_name, rest = self.split_given_name(rest); if not title: ...
SplitGivenName ==
  /\ pc = "split_given_name"
  /\ LET r == split_given_name(cur.rest)
     IN  /\ cur' = [cur EXCEPT !.given_name = r.given_name, !.rest = r.rest]
         /\ log' = Append(log, Step("split_given_name", cur.rest, r.given_name, r.rest))
  /\ pc' = IF cur.title = "" THEN "split_title_again" ELSE "split_addresses"
  /\ UNCHANGED <<call_vars, validator_vars, err, merge_vars, cleanup_vars, dict_vars, all_lines, todo,
                 split_result, ret, column_lines, line_no, lemma, min_x, max_x,
                 column_result>>

SplitTitleAgain ==
  /\ pc = "split_title_again"
  /\ TitleStep("split_addresses")

\* addresses, rest = self.split_addresses(rest)
SplitAddresses ==
  /\ pc = "split_addresses"
  /\ LET r == split_addresses(cur.rest)
     IN  /\ cur' = [cur EXCEPT !.addresses = r.addresses, !.rest = r.rest]
         /\ log' = Append(log, Step("split_addresses", cur.rest, r.addresses, r.rest))
  /\ pc' = "split_occupations"
  /\ UNCHANGED <<call_vars, validator_vars, err, merge_vars, cleanup_vars, dict_vars, all_lines, todo,
                 split_result, ret, column_lines, line_no, lemma, min_x, max_x,
                 column_result>>

\* occupations, rest = self.split_occupations(rest)
SplitOccupations ==
  /\ pc = "split_occupations"
  /\ LET r == split_occupations(cur.rest)
     IN  /\ cur' = [cur EXCEPT !.occupations = r.occupations, !.rest = r.rest]
         /\ log' = Append(log, Step("split_occupations", cur.rest, r.occupations, r.rest))
  /\ pc' = "append_entry"
  /\ UNCHANGED <<call_vars, validator_vars, err, merge_vars, cleanup_vars, dict_vars, all_lines, todo,
                 split_result, ret, column_lines, line_no, lemma, min_x, max_x,
                 column_result>>

\* The entry of the line is built and appended; on to the next line.
AppendEntry ==
  /\ pc = "append_entry"
  /\ LET line == column_lines[line_no]
         box == Box(min_x, line.box.y, max_x - min_x, line.box.height)
     IN  column_result' = Append(column_result,
           AddressBookEntry(0, line.page_id, box, cur.name, cur.given_name,
                            cur.maiden_name, "", cur.title, cur.occupations,
                            cur.addresses, "", cur.rest))
  /\ line_no' = line_no + 1
  /\ pc' = "column_loop"
  /\ UNCHANGED <<call_vars, validator_vars, err, merge_vars, cleanup_vars, dict_vars, all_lines, todo,
                 split_result, ret, column_lines, lemma, min_x, max_x, cur, log>>

(***************************************************************************)
(* Splitter.split on lists of OCR lines: lists of lines of several pages   *)
(* and columns, and single lines with a name and comma-separated segments. *)
(***************************************************************************)
SplitPool == {
  OCRLine(7, 1, "Meier, Anna, Lehrer, Metzg. 85", Box(300, 100, 600, 50)),
  OCRLine(7, 1, "_ Frau, Spital", Box(302, 150, 500, 50)),
  OCRLine(7, 1, "und Mal.", Box(400, 120, 590, 40)),
  OCRLine(7, 1, "B.", Box(520, 130, 30, 25)),
  OCRLine(7, 1, ", Lehrer", Box(300, 200, 400, 50)),
  OCRLine(7, 1, "von, Frau", Box(305, 250, 400, 50)),
  OCRLine(7, 1, "Meier, geb.", Box(300, 300, 400, 50)),
  OCRLine(7, 2, "Bu% & Cie., Spital", Box(900, 50, 600, 50)),
  OCRLine(8, 1, "v. Goumoens-v. Tavel, Frau", Box(310, 80, 600, 50)),
  OCRLine(8, 1, "^ M., Schnd", Box(312, 90, 580, 45)) }

MaxSegments == 3

NAMES == {"Meier", "v. Tavel", "Buss"}

SEGMENTS == {"Frau", "Anna", "geb. v. Tavel", "& Cie.", "Spital",
             "Metzg. 85 u. 87", "Lehrer", "Huh"}

ColumnTexts(n) ==
  {Join(<<name>> \o q, ", ") : name \in NAMES, q \in SeqsUpTo(SEGMENTS, n)}

\* Segments that a step takes only a part of, compound occupations and
\* addresses, an empty segment.
ExtraTexts == {
  "Meier, Frauenarzt, Lehrer",
  "Meier, Dr. med., Anna",
  "Meier Anna, Schnd, Mal. u. Lehrer",
  "Meier, Ag. 7a u. Metzg. 9, Huh, Metzg. 85 u. Bahnhof",
  "Meier, M., Wittwe, Lehrer, Bahnhof",
  "Meier, Huh, Spital, Lehrer",
  "Meier, geb. Tavel Frau Anna, Metzg. 85.",
  "Buss, & Cie. Spital, Huh",
  "Meier, Lehrer,, Huh" }

\* Columns in which dash lines follow a company, a double name and each
\* other, and in which a dash line is itself a company.
DashColumns == {
  <<OCRLine(7, 1, "Bu% & Cie., Spital", Box(300, 10, 600, 50)),
    OCRLine(7, 1, "_ Frau, Spital", Box(300, 60, 600, 50)),
    OCRLine(7, 1, "^ & Co., Bahnhof", Box(300, 110, 600, 50)),
    OCRLine(7, 1, "_ Anna", Box(300, 160, 600, 50))>>,
  <<OCRLine(7, 1, "v. Goumoens-v. Tavel, Frau", Box(300, 10, 600, 50)),
    OCRLine(7, 1, "_ M.", Box(300, 60, 600, 50)),
    OCRLine(7, 1, "_ Anna, Lehrer", Box(300, 110, 600, 50)),
    OCRLine(7, 2, "^ Frau", Box(900, 10, 600, 50))>>,
  <<OCRLine(7, 1, "Meier A.-G., Spital", Box(300, 10, 600, 50)),
    OCRLine(7, 1, "_ Anna", Box(300, 60, 600, 50))>> }

\* Columns with a capital letter and a period far to the right, which
\* merge_lines discards: it ends to the right of every other line, or not.
MarginColumns == {
  <<OCRLine(7, 1, "Meier, Anna, Lehrer", Box(300, 10, 600, 50)),
    OCRLine(7, 1, "B.", Box(880, 30, 30, 25)),
    OCRLine(7, 1, "Meier, Hans", Box(302, 60, 500, 50))>>,
  <<OCRLine(7, 1, "B.", Box(560, 5, 30, 25)),
    OCRLine(7, 1, "Meier, Hans", Box(300, 60, 500, 50)),
    OCRLine(7, 1, "Spital", Box(400, 110, 450, 50))>> }

SplitInputs ==
  SeqsUpTo(SplitPool, MaxLines)
    \cup MarginColumns
    \cup {<<OCRLine(7, 1, t, Box(300, 10, 600, 50))>> :
            t \in ColumnTexts(MaxSegments) \cup ExtraTexts}
    \cup DashColumns

InitSplit ==
  /\ pc = "split"
  /\ err = ""
  /\ all_lines \in SplitInputs
  /\ lines = <<>>
  /\ MergeIdle
  /\ CleanupIdle
  /\ SplitIdle
  /\ ValidatorIdle
  /\ DictIdle
  /\ CallIdle

NextSplit ==
  \/ SplitBegin \/ SplitColumn \/ SplitReturn
  \/ MergeBegin \/ MergeLine \/ MergeEnd
  \/ ColumnMerged \/ ColumnDone
  \/ SplitName \/ SplitCompany \/ SplitMaidenName \/ SplitTitle
  \/ SplitGivenName \/ SplitTitleAgain \/ SplitAddresses \/ SplitOccupations
  \/ AppendEntry

(***************************************************************************)
(* AddressBookEntry.to_dict (utils.py) and the start of Validator.validate *)
(* (validator.py), as make_excel_workbook calls them for each entry.       *)
(***************************************************************************)
COLUMNS == <<"ID", "Scan", "Name", "Vorname", "Ledigname", "Adelsname",
             "Titel", "Beruf", "Beruf 2", "Beruf 3", "Adresse", "Adresse 2",
             "Adresse 3", "Arbeitsort", "nicht zuweisbar">>

\* list[i] (i from 0) raises IndexError when the list has no such item.
item_raises(list, i) == i >= Len(list)

\* Of the six conditional expressions the ones whose condition lets the
\* item access happen although the item is not there.
to_dict_raises(self) ==
  \/ Len(self.occupations) >= 1 /\ item_raises(self.occupations, 0)
  \/ Len(self.occupations) >= 2 /\ item_raises(self.occupations, 1)
  \/ Len(self.occupations) >= 3 /\ item_raises(self.occupations, 2)
  \/ Len(self.addresses) >= 1 /\ item_raises(self.addresses, 0)
  \/ Len(self.addresses) >= 1 /\ item_raises(self.addresses, 1)
  \/ Len(self.addresses) >= 1 /\ item_raises(self.addresses, 2)

to_dict(self) ==
  LET pos == ToString(self.box.x) \o "," \o ToString(self.box.y) \o ","
               \o ToString(self.box.width) \o "," \o ToString(self.box.height)
      occ_1 == IF Len(self.occupations) >= 1 THEN self.occupations[1] ELSE ""
      occ_2 == IF Len(self.occupations) >= 2 THEN self.occupations[2] ELSE ""
      occ_3 == IF Len(self.occupations) >= 3 THEN self.occupations[3] ELSE ""
      addr_1 == IF Len(self.addresses) >= 1 THEN self.addresses[1] ELSE ""
      addr_2 == IF Len(self.addresses) >= 1 THEN self.addresses[2] ELSE ""
      addr_3 == IF Len(self.addresses) >= 1 THEN self.addresses[3] ELSE ""
  IN  ("ID" :> (IF self.id # 0 THEN "BAE-" \o ToString(self.id) ELSE "")) @@
      ("Scan" :> ToString(self.page_id)) @@
      ("Position" :> pos) @@
      ("Name" :> self.family_name) @@
      ("Vorname" :> self.given_name) @@
      ("Ledigname" :> self.maiden_name) @@
      ("Adelsname" :> self.nobility_name) @@
      ("Titel" :> self.title) @@
      ("Beruf" :> occ_1) @@
      ("Beruf 2" :> occ_2) @@
      ("Beruf 3" :> occ_3) @@
      ("Adresse" :> addr_1) @@
      ("Adresse 2" :> addr_2) @@
      ("Adresse 3" :> addr_3) @@
      ("Arbeitsort" :> self.workplace) @@
      ("nicht zuweisbar" :> self.unrecognized)

\* entry_dict = entry.to_dict()
ToDict ==
  /\ pc = "to_dict"
  /\ IF to_dict_raises(entry)
     THEN /\ pc' = "raised"
          /\ err' = "IndexError"
          /\ UNCHANGED entry_dict
     ELSE /\ entry_dict' = to_dict(entry)
          /\ pc' = "validate"
          /\ UNCHANGED err
  /\ UNCHANGED <<call_vars, validator_vars, entry, merge_vars, cleanup_vars, split_vars>>

\* validate: assert all(key in self.columns for key in entry.keys()), entry
ValidateKeys ==
  /\ pc = "validate"
  /\ IF \A key \in DOMAIN entry_dict : \E n \in 1..Len(COLUMNS) : COLUMNS[n] = key
     THEN /\ pc' = "validate_name"
          /\ UNCHANGED err
     ELSE /\ pc' = "raised"
          /\ err' = "AssertionError"
  /\ UNCHANGED <<call_vars, validator_vars, dict_vars, merge_vars, cleanup_vars, split_vars>>

MaxItems == 4

SampleOccupations == {"Lehrer", "Mal."}

SampleAddresses == {"Metzg. 85", "Spital"}

InitDict ==
  /\ pc = "to_dict"
  /\ err = ""
  /\ \E occs \in SeqsUpTo(SampleOccupations, MaxItems),
        addrs \in SeqsUpTo(SampleAddresses, MaxItems) :
       entry = AddressBookEntry(0, 7, Box(300, 10, 600, 50), "Meier", "Anna",
                                "", "", "Frau", occs, addrs, "", "")
  /\ entry_dict = <<>>
  /\ lines = <<>>
  /\ MergeIdle
  /\ CleanupIdle
  /\ all_lines = <<>>
  /\ SplitIdle
  /\ ValidatorIdle
  /\ CallIdle

NextDict == ToDict \/ ValidateKeys

SpecDict == InitDict /\ [][NextDict]_vars

Init == InitSplit

Next == NextSplit

Spec == Init /\ [][Next]_vars

(***************************************************************************)
(* What the claims about split_column speak of, stated on the entry just   *)
(* appended and on the history of the steps that made it.                  *)
(***************************************************************************)
LastEntry == column_result[Len(column_result)]

\* An entry has just been appended; log holds the steps of its line.
EntryDone == pc = "column_loop" /\ Len(column_result) > 0

StepNames == [n \in 1..Len(log) |-> log[n].step]

\* Every step after the first works on the remainder of the step before it.
Chained == \A n \in 2..Len(log) : log[n].input = log[n - 1].rest

\* The comma-separated segments of a text, stripped.
Segments(text) == MapStrip(Split(text, ","))

TrimComma(t) == IF EndsWith(t, ",") THEN SubSeq(t, 1, Len(t) - 1) ELSE t

\* The remainder of a step is the end of its input ...
FromFront(st) == EndsWith(st.input, st.rest)

\* ... and this is what it took from the front, without the separators.
HeadTaken(st) ==
  Strip(TrimComma(Strip(SubSeq(st.input, 1, Len(st.input) - Len(st.rest)))))

Count(seq, x) == Cardinality({n \in 1..Len(seq) : seq[n] = x})

RECURSIVE Flat(_)
Flat(seqs) == IF seqs = <<>> THEN <<>> ELSE Head(seqs) \o Flat(Tail(seqs))

\* The items of list p at the positions K, in order.
Pick(p, K) == [j \in 1..Cardinality(K) |-> p[SortedSeq(K)[j]]]

\* The lists of occupations that a segment can stand for: itself, itself with
\* a final period, or two occupations joined by "u." or "und".
OccupationForms(seg) ==
  {f \in {<<seg>>, <<seg \o ".">>} : f[1] \in occupations}
    \cup {<<a, b>> : <<a, b>> \in {ab \in occupations \X occupations :
            seg \in {ab[1] \o " u. " \o ab[2], ab[1] \o " und " \o ab[2]}}}

KeepsCompany(st, e) ==
  /\ FromFront(st)
  /\ IF st.got = ""
     THEN st.rest = st.input /\ e.title # "[Firma]"
     ELSE /\ HeadTaken(st) \in COMPANY_ABBREVS
          /\ e.title = "[Firma]"
          /\ e.family_name = st.got
          /\ EndsWith(st.got, " " \o HeadTaken(st))

KeepsMaidenName(st, e) ==
  /\ FromFront(st)
  /\ e.maiden_name = st.got
  /\ IF st.got = ""
     THEN st.rest = st.input
     ELSE LET w == Words(HeadTaken(st))
              g == Words(st.got)
          IN  /\ Len(w) = Len(g) + 1
              /\ \E q \in MAIDEN_NAME_PREFIXES : StartsWith(w[1], q)
              /\ w[Len(w)] = g[Len(g)]
              /\ Len(g) = 2 => /\ w[2] \in DOMAIN NOBILITY_PREFIXES
                               /\ g[1] = NOBILITY_PREFIXES[w[2]]

KeepsTitle(st, e) ==
  /\ FromFront(st)
  /\ HeadTaken(st) = st.got
  /\ st.got # "" => e.title = st.got

KeepsGivenName(st, e) ==
  /\ FromFront(st)
  /\ HeadTaken(st) = st.got
  /\ e.given_name = st.got

KeepsAddresses(st, e) ==
  /\ e.addresses = st.got
  /\ LET p == Segments(st.input)
     IN  \E a \in {0, 1}, b \in {0, 1} :
           /\ a + b <= Len(p)
           /\ a = 1 => cleanup_address(p[1]) # <<>>
           /\ b = 1 => cleanup_address(p[Len(p)]) # <<>>
           /\ st.rest = Join(SubSeq(p, 1 + a, Len(p) - b), ", ")
           /\ st.got = (IF a = 1 THEN cleanup_address(p[1]) ELSE <<>>)
                         \o (IF b = 1 THEN cleanup_address(p[Len(p)]) ELSE <<>>)

KeepsOccupations(st, e) ==
  /\ e.occupations = st.got
  /\ LET p == Segments(st.input)
     IN  \E K \in SUBSET (1..Len(p)) :
           /\ st.rest = Join(Pick(p, K), ", ")
           /\ \E forms \in [(1..Len(p)) \ K -> UNION {OccupationForms(p[i]) : i \in 1..Len(p)}] :
                /\ \A i \in (1..Len(p)) \ K : forms[i] \in OccupationForms(p[i])
                /\ st.got = Flat(Pick(forms, (1..Len(p)) \ K))

Keeps(st, e) ==
  CASE st.step = "split_company" -> KeepsCompany(st, e)
    [] st.step = "split_maiden_name" -> KeepsMaidenName(st, e)
    [] st.step = "split_title" -> KeepsTitle(st, e)
    [] st.step = "split_given_name" -> KeepsGivenName(st, e)
    [] st.step = "split_addresses" -> KeepsAddresses(st, e)
    [] st.step = "split_occupations" -> KeepsOccupations(st, e)
    [] OTHER -> FALSE

TitleAfterGivenName ==
  IF log[2].got # "" THEN "[Firma]"
  ELSE IF Len(log) >= 4 /\ log[4].step = "split_title" THEN log[4].got ELSE ""

FullOrder ==
  <<"split_name", "split_company", "split_maiden_name", "split_title",
    "split_given_name">>
    \o (IF TitleAfterGivenName = "" THEN <<"split_title">> ELSE <<>>)
    \o <<"split_addresses", "split_occupations">>

CompanyOrder ==
  <<"split_name", "split_company", "split_given_name", "split_addresses",
    "split_occupations">>

\* A first or last segment offered to split_addresses that is a point of
\* interest and an occupation goes to the addresses, and is not among the
\* segments offered to split_occupations.
DualSegmentIsAddress ==
  LET ad == log[Len(log) - 1]
      oc == log[Len(log)]
      p == Segments(ad.input)
  IN  \A x \in pois \cap occupations :
        LET first == IF p[1] = x THEN 1 ELSE 0
            last == IF Len(p) >= 2 /\ p[Len(p)] = x THEN 1 ELSE 0
        IN  first + last > 0 =>
              /\ ad.step = "split_addresses"
              /\ oc.step = "split_occupations"
              /\ Count(LastEntry.addresses, x) >= first + last
              /\ Count(Segments(oc.input), x) = Count(p, x) - first - last
              /\ (\A i \in 2..(Len(p) - 1) : ~Contains(p[i], x))
                   => Count(LastEntry.occupations, x) = 0

\* C2 as stated: every line goes through split_name, split_company,
\* split_maiden_name, split_title, split_given_name, split_title again if
\* there is no title yet, split_addresses, split_occupations, each on the
\* remainder of the one before; a first or last segment that is an address
\* and an occupation becomes an address.
C2_fixed_order ==
  EntryDone =>
    /\ StepNames = FullOrder
    /\ log[1].input = column_lines[line_no - 1].text
    /\ Chained
    /\ DualSegmentIsAddress

\* C2 amended: the same, except that a line on which split_company finds a
\* company marker skips split_maiden_name and both calls of split_title.
C2_order_with_company ==
  EntryDone =>
    /\ StepNames = IF log[2].got # "" THEN CompanyOrder ELSE FullOrder
    /\ log[1].input = column_lines[line_no - 1].text
    /\ Chained
    /\ DualSegmentIsAddress

C2_witness ==
  /\ EntryDone
  /\ Len(log) = 8
  /\ Segments(log[1].rest) = <<"Spital", "Lehrer">>
  /\ LastEntry.addresses = <<"Spital">>
  /\ LastEntry.occupations = <<"Lehrer">>

\* C3: split never raises on lines with non-empty text, and gives one entry
\* for each merged line, in the order of the merged lines.
C3_returns_one_entry_per_line ==
  /\ pc # "raised"
  /\ pc \in {"column_loop", "append_entry"} =>
       /\ Len(column_result) = line_no - 1
       /\ \A n \in 1..Len(column_result) :
            /\ column_result[n].page_id = column_lines[n].page_id
            /\ column_result[n].box.y = column_lines[n].box.y
            /\ column_result[n].box.height = column_lines[n].box.height
  /\ pc = "split_return" => (split_result = <<>> <=> all_lines = <<>>)

(***************************************************************************)
(* What the claims about to_dict and the keys of its dict speak of.        *)
(***************************************************************************)
\* list[n - 1] if it is there, else the empty string.
ItemOrEmpty(list, n) == IF n <= Len(list) THEN list[n] ELSE ""

\* C4: to_dict returns a dict whatever the lengths of occupations and
\* addresses; the three Beruf and the three Adresse fields hold the first
\* three items in order, "" where there is none.
C4_first_three_items ==
  pc # "to_dict" =>
    /\ err # "IndexError"
    /\ DOMAIN entry_dict # {}
    /\ entry_dict["Beruf"] = ItemOrEmpty(entry.occupations, 1)
    /\ entry_dict["Beruf 2"] = ItemOrEmpty(entry.occupations, 2)
    /\ entry_dict["Beruf 3"] = ItemOrEmpty(entry.occupations, 3)
    /\ entry_dict["Adresse"] = ItemOrEmpty(entry.addresses, 1)
    /\ entry_dict["Adresse 2"] = ItemOrEmpty(entry.addresses, 2)
    /\ entry_dict["Adresse 3"] = ItemOrEmpty(entry.addresses, 3)

\* C5: every key of a dict made by to_dict is one of COLUMNS, so the
\* assertion at the start of validate holds.
C5_keys_are_columns ==
  (pc # "to_dict" /\ err # "IndexError") =>
    /\ \A key \in DOMAIN entry_dict : \E n \in 1..Len(COLUMNS) : COLUMNS[n] = key
    /\ err # "AssertionError"

(***************************************************************************)
(* cleanup_text and the archaic glyphs.                                    *)
(***************************************************************************)
\* What the claims say of one character: long s, sharp s, double hyphen.
ModernGlyph(c) ==
  IF c = "|" THEN "s" ELSE IF c = "%" THEN "ss" ELSE IF c = "~" THEN "-" ELSE c

\* The text with each of its characters modernised, one by one.
Modernised(s) == ConcatRange([i \in 1..Len(s) |-> ModernGlyph(Ch(s, i))], 1, Len(s))

ArchaicGlyphs == {"|", "%", "~"}

\* How often the character c stands in the text s.
CountChar(s, c) == Cardinality({n \in 1..Len(s) : Ch(s, n) = c})

C12_sharp_s_kept ==
  pc = "cleaned_once" =>
    /\ CountChar(text_one, "%") = CountChar(text_in, "%")
    /\ text_in = "|tra%~" => text_one = "stra%-"

(***************************************************************************)
(* The methods of the Splitter called on their own, as split_test.py does. *)
(***************************************************************************)
(***************************************************************************)
(* The tables of the Validator that validate and the normalize functions   *)
(* read: the tables of the Splitter above, and those that follow.          *)
(***************************************************************************)
family_names == {"Meier", "von Tavel"}

nobility_names == {"von Burgistein"}

economic_activities == {"Bank", "Parf#merie", "Spital"}

\* titles.csv and givennames.txt: the column Gender.
titles_gender(title) == IF title \in {"Frau", "Wittwe"} THEN "F" ELSE ""

given_names_gender(name) ==
  IF name = "Anna" THEN "F" ELSE IF name = "Hans" THEN "M" ELSE ""

\* street_abbrevs.csv: the column Street.
street_abbrevs_street(abbrev) ==
  IF abbrev = "Metzg." THEN "Metzgergasse" ELSE "Aarbergergasse"

\* pois.csv: the column Normalized.
pois_normalized(poi) == IF poi = "Spital" THEN "Inselspital" ELSE poi

(***************************************************************************)
(* Validator._normalize_address.                                           *)
(***************************************************************************)
\* _re_split_addr: ^(.+) (\d+[a-t]?)$ matches at the last space.
re_split_addr_matches(addr) ==
  LastSpace(addr) >= 2 /\ IsNum(SubSeq(addr, LastSpace(addr) + 1, Len(addr)))

re_split_addr_street(addr) == SubSeq(addr, 1, LastSpace(addr) - 1)

re_split_addr_num(addr) == SubSeq(addr, LastSpace(addr) + 1, Len(addr))

\* _normalize_address with an abbreviation left as it stands.
resolved_street_unresolved(street) == street

\* _normalize_address: the street of a street abbreviation.
resolved_street(street) ==
  IF street \in street_abbrevs THEN street_abbrevs_street(street) ELSE street

\* _normalize_address: (ok, normalized)
normalize_address(addr) ==
  IF addr \in pois THEN [ok |-> TRUE, normalized |-> pois_normalized(addr)]
  ELSE IF re_split_addr_matches(addr)
  THEN [ok |-> resolved_street(re_split_addr_street(addr)) \in streets,
        normalized |-> resolved_street(re_split_addr_street(addr)) \o " "
                         \o re_split_addr_num(addr)]
  ELSE IF addr \in streets THEN [ok |-> TRUE, normalized |-> addr]
  ELSE IF addr \in street_abbrevs
  THEN [ok |-> TRUE, normalized |-> street_abbrevs_street(addr)]
  ELSE [ok |-> FALSE, normalized |-> ""]

\* split_name(arg)
CallSplitName ==
  /\ pc = "call"
  /\ fn = "split_name"
  /\ IF split_name_raises(arg)
     THEN /\ pc' = "raised"
          /\ err' = "IndexError"
          /\ UNCHANGED out
     ELSE /\ pc' = "returned"
          /\ out' = split_name(arg)
          /\ UNCHANGED err
  /\ UNCHANGED <<fn, arg, validator_vars, merge_vars, cleanup_vars, split_vars, dict_vars>>

\* split_company(arg.name, arg.rest): the loop returns on the first
\* abbreviation of the set that fits, and the set has no fixed order.
CallSplitCompany ==
  /\ pc = "call"
  /\ fn = "split_company"
  /\ IF company_matches(arg.rest) = {}
     THEN out' = [company |-> "", rest |-> arg.rest]
     ELSE \E a \in company_matches(arg.rest) :
            out' = split_company_with(arg.name, arg.rest, a)
  /\ pc' = "returned"
  /\ UNCHANGED <<err, fn, arg, validator_vars, merge_vars, cleanup_vars, split_vars, dict_vars>>

\* split_title(arg)
CallSplitTitle ==
  /\ pc = "call"
  /\ fn = "split_title"
  /\ out' = split_title(arg)
  /\ pc' = "returned"
  /\ UNCHANGED <<err, fn, arg, validator_vars, merge_vars, cleanup_vars, split_vars, dict_vars>>

\* cleanup_address(arg)
CallCleanupAddress ==
  /\ pc = "call"
  /\ fn = "cleanup_address"
  /\ out' = cleanup_address(arg)
  /\ pc' = "returned"
  /\ UNCHANGED <<err, fn, arg, validator_vars, merge_vars, cleanup_vars, split_vars, dict_vars>>

\* split_addresses(arg)
CallSplitAddresses ==
  /\ pc = "call"
  /\ fn = "split_addresses"
  /\ out' = split_addresses(arg)
  /\ pc' = "returned"
  /\ UNCHANGED <<err, fn, arg, validator_vars, merge_vars, cleanup_vars, split_vars, dict_vars>>

\* What stands before the first comma of a line: plain and noble names,
\* double names with and without spaces at the hyphen, the dash glyphs
\* alone, together and before further words, a particle alone, nothing.
NameFields == {
  "Meier", "Meier M.", "v. B#ren H.", "V. B#ren", "de Vigneule", "De Vigneule",
  "Buss & Cie.", "v. Goumoens-v. Tavel", "Goumoens-von Tavel Anna",
  "Goumoens- von Tavel", "Goumoens -de Tavel", "Meier - M#ller Anna",
  "von Goumoens-von", "Meier-von", "-", "^", "_", "- Schwest.", "^ Schwest.",
  "_ Schwest.", "-^", "^_", "-^_", "_-", "--", "- -", "_ - Frau", "-Meier",
  "von", "von -", "von _ Frau", "", " " }

\* What follows it, from the first comma on.
NameTails == {"", ", M., Schneiderin", ", geb. v. Tavel", ", Ag. 23",
              ",, Lehrer", ", , Lehrer", ","}

NameTexts == {f \o t : f \in NameFields, t \in NameTails}

\* The remainders that split_company is given: each abbreviation alone,
\* before a comma and before a word, and texts that start with none.
CompanyRests ==
  COMPANY_ABBREVS
    \cup {a \o ", Spital" : a \in COMPANY_ABBREVS}
    \cup {a \o " Spital, Huh" : a \in COMPANY_ABBREVS}
    \cup {"& Cie., Parf#merie, Br#ckfeld", "M., Schneiderin", "", "Lehrer, & Cie.",
          " & Cie., Spital", "Cie.,, Spital", "Cie. , Spital", "Comp", "&"}

CompanyArgs == {[name |-> n, rest |-> r] : n \in {"Bu%", "Meier"}, r \in CompanyRests}

\* Remainders with one title, with two titles of which one starts the other,
\* with a title that is only the start of a word, and with none.
TitleTexts == {
  "Frau, Lehrer., Jkg. 1", "Frau", "Frau , Lehrer", "Frau Anna, Lehrer",
  "Frauenarzt, Lehrer", "Dr., Lehrer", "Dr. med., Lehrer", "Dr. med.",
  "Dr. med. Anna", "Dr.med., Lehrer", "Dr. , med.", "Wittwe, Anna, Lehrer",
  "Lehrer, Frau", "Anna, Dr. med.", "", ", Frau" }

\* The segments of test_cleanup_address with the streets and places of the
\* tables above, and segments that miss one of the forms by a little.
AddressTexts == {
  "", "Lehrer", "Bahnhof", "Spital", "Something 85", "Metzg. 85", "Metzg. 190.",
  "Metzg. 7u. Bahnhof", "Metzg. 85 und 87", "Ag. 21 u. Metzg. 24",
  "Metzg. 101 u. Spital", "Aarbergergasse 7a", "Metzgergasse 12t",
  "Metzg. 12v", "Metzg. 7u", "Metzg. 85 u. Huh", "Huh 85 u. 87",
  "Huh 85 u. Metzg. 9", "Metzg. 85 u. Huh 9", "Huh 85 u. Spital", "Metzg.",
  "Metzg. 85 87", "Metzg. 7a u. 9b", "Metzg. 7a u. 9b.", "Metzg. 7a und 9b",
  "Metzg. 85und 87", "Metzg. 85 u.87", "Metzg. 85 u.Spital", "Metzg. 85 u. ",
  "Ag. 1 u. Ag. 2 u. Ag. 3", "Ag. 1 u. Ag. 2 u. 3", "Ag. 1 u. 2 u. Spital",
  "Metzg.  85", "Metzg. 85 ", " Metzg. 85", "85", " 85", "Metzg. a",
  "Metzg. 85..", "Spital 85", "Spital u. Bahnhof", "Bahnhof.",
  "Metzg. 85 oder 87", "Metzg. 85, Spital" }

\* The segments that split_addresses is given: addresses of every form,
\* an occupation, a place that is also an occupation, an unknown word.
MaxAddressSegments == 3

AddressSegments == {"Metzg. 85", "Ag. 7 u. 9", "Spital", "Lehrer", "Huh"}

AddressLists ==
  {""} \cup {Join(q, ", ") : q \in SeqsUpTo(AddressSegments, MaxAddressSegments) \ {<<>>}}
       \cup {"Metzg. 85 und 87, Bla, Bla", "Lehrer, XY, Metzg. 85 und 87",
             "Metzg. 85,, Spital", "Spital,", ", Spital", "Metzg. 85 , Huh ,Bahnhof"}

InitCall ==
  /\ pc = "call"
  /\ err = ""
  /\ \/ fn = "split_name" /\ arg \in NameTexts
     \/ fn = "split_company" /\ arg \in CompanyArgs
     \/ fn = "split_title" /\ arg \in TitleTexts
     \/ fn = "cleanup_address" /\ arg \in AddressTexts
     \/ fn = "split_addresses" /\ arg \in AddressLists
  /\ out = ""
  /\ lines = <<>>
  /\ MergeIdle
  /\ CleanupIdle
  /\ all_lines = <<>>
  /\ SplitIdle
  /\ ValidatorIdle
  /\ DictIdle

\* Validator._normalize_address on every address that cleanup_address
\* returned: arg is that list, out the list of the results.
CallNormalizeAddress ==
  /\ pc = "returned"
  /\ fn = "cleanup_address"
  /\ fn' = "_normalize_address"
  /\ arg' = out
  /\ out' = [n \in 1..Len(out) |-> normalize_address(out[n])]
  /\ UNCHANGED <<pc, err, validator_vars, merge_vars, cleanup_vars, split_vars, dict_vars>>

NextCall ==
  \/ CallNormalizeAddress
  \/ CallSplitName
  \/ CallSplitCompany
  \/ CallSplitTitle
  \/ CallCleanupAddress
  \/ CallSplitAddresses

SpecCall == InitCall /\ [][NextCall]_vars

(***************************************************************************)
(* split_name: the name and the remainder.                                 *)
(***************************************************************************)
Returned(f) == pc = "returned" /\ fn = f

Particles == {"de", "De", "von", "Von", "v.", "V."}

Canonical(w) ==
  IF w \in {"de", "De"} THEN "de" ELSE IF w \in {"von", "Von", "v.", "V."} THEN "von" ELSE w

EndsInParticle(w) == \E q \in Particles : EndsWith(w, "-" \o q)

\* Of the words W of the name field, how many make the name: the first
\* word, with the next one after a particle, and one more (if there is one)
\* when the last of these ends in '-<particle>'.
NameLength(W) ==
  LET k == IF W[1] \in Particles /\ Len(W) >= 2 THEN 2 ELSE 1
  IN  IF k <= Len(W) /\ EndsInParticle(W[k]) /\ k < Len(W) THEN k + 1 ELSE k

NameOf(W) == Join(<<Canonical(W[1])>> \o SubSeq(W, 2, NameLength(W)), " ")

\* The remainder: what is left of the name field, then the other segments,
\* each without the spaces around it, the empty ones left out.
RemainderOf(W, text) ==
  FilterNonEmpty(MapStrip(<<Join(SubSeq(W, NameLength(W) + 1, Len(W)), " ")>>
                          \o Tail(Split(text, ","))))

KeptSegments(rest) == FilterNonEmpty(MapStrip(Split(rest, ",")))

\* The words of the text before the first comma, as they stand.
FieldWords(text) == Words(Split(text, ",")[1])

\* The same after ' -' and '- ' have become '-'.
GluedWords(text) ==
  Words(Replace(Replace(Split(text, ",")[1], " -", "-"), "- ", "-"))

DashGlyphs == {"-", "^", "_"}

\* The strings that Python finds in "-^_" with `in`, the empty one aside.
DashNames == {"-", "^", "_", "-^", "^_", "-^_"}

\* The name field starts with a word made of dash glyphs only.
StartsWithDashes(text) ==
  /\ FieldWords(text) # <<>>
  /\ Chars(FieldWords(text)[1]) \subseteq DashGlyphs

\* A segment after the first that holds spaces only: it stays in the
\* remainder as an empty item.
BlankSegment(text) ==
  \E n \in 2..Len(Split(text, ",")) :
     Split(text, ",")[n] # "" /\ Strip(Split(text, ",")[n]) = ""

C14_sentinel_for_dash ==
  Returned("split_name") =>
     /\ out.name = "_" <=> FieldWords(arg)[1] \in DashGlyphs
     /\ FieldWords(arg)[1] \in DashGlyphs =>
          KeptSegments(out.rest) =
            FilterNonEmpty(MapStrip(<<Join(Tail(FieldWords(arg)), " ")>>
                                    \o Tail(Split(arg, ","))))

(***************************************************************************)
(* split_column: the lemma of the dash entries.                            *)
(***************************************************************************)
\* Entry j of the column comes from a line for which split_name gave the
\* sentinel.
DashEntry(j) == split_name(column_lines[j].text).name = "_"

\* The most recent entry before entry j that is no dash entry, 0 if none.
LastNamed(j) == Max({0} \cup {i \in 1..(j - 1) : ~DashEntry(i)})

BeforeHyphen(name) == Strip(Split(name, "-")[1])

\* C15 as stated: a dash entry has as family name the part before the first
\* '-' of the family name of the last entry before it that is no dash entry,
\* and the empty string if the column has none.
C15_dash_gets_family_name ==
  \A j \in 1..Len(column_result) :
     DashEntry(j) =>
       column_result[j].family_name =
         IF LastNamed(j) = 0 THEN ""
         ELSE BeforeHyphen(column_result[LastNamed(j)].family_name)

\* The lemma at entry j: the part before the first '-' of the name that
\* split_name gave for the last line before it that is no dash line.
LemmaAt(j) ==
  IF LastNamed(j) = 0 THEN ""
  ELSE BeforeHyphen(split_name(column_lines[LastNamed(j)].text).name)

\* C15, amended: a dash entry that is no company has the lemma as family
\* name, a dash entry that is a company has the lemma followed by its
\* company abbreviation.
C15_dash_gets_lemma ==
  \A j \in 1..Len(column_result) :
     DashEntry(j) =>
       IF column_result[j].title = "[Firma]"
       THEN \E a \in COMPANY_ABBREVS :
              column_result[j].family_name = LemmaAt(j) \o " " \o a
       ELSE column_result[j].family_name = LemmaAt(j)

\* Two dash entries in a row after a double name, then a dash entry that
\* starts the next column.
C15_witness ==
  /\ pc = "split_return"
  /\ Len(split_result) = 4
  /\ split_result[1].family_name = "von Goumoens-v. Tavel"
  /\ split_result[2].family_name = "von Goumoens"
  /\ split_result[3].family_name = "von Goumoens"
  /\ split_result[4].family_name = ""

(***************************************************************************)
(* split_company.                                                          *)
(***************************************************************************)
\* The text without its first n characters.
Behind(text, n) == SubSeq(text, n + 1, Len(text))

\* The text without the comma it starts with, if it starts with one.
WithoutComma(text) == IF Ch(text, 1) = "," THEN Behind(text, 1) ELSE text

\* The abbreviations that the remainder starts with.
Fitting(rest) == {a \in COMPANY_ABBREVS : SubSeq(rest, 1, Min2(Len(a), Len(rest))) = a}

PrefixFree ==
  \A a \in COMPANY_ABBREVS, b \in COMPANY_ABBREVS :
     a # b => ~StartsWith(b, a)

\* C16: split_company returns the name with the abbreviation that the
\* remainder starts with, and the remainder without the abbreviation and one
\* comma right behind it, stripped; it returns ('', rest) when the remainder
\* starts with none.  No abbreviation starts another one, so at most one
\* fits and the order in which the set is gone through does not matter.
C16_company_abbreviation ==
  /\ PrefixFree
  /\ Returned("split_company") =>
       /\ Cardinality(Fitting(arg.rest)) <= 1
       /\ Fitting(arg.rest) = {} => out = [company |-> "", rest |-> arg.rest]
       /\ \A a \in Fitting(arg.rest) :
            out = [company |-> arg.name \o " " \o a,
                   rest |-> Strip(WithoutComma(Behind(arg.rest, Len(a))))]

C16_witness ==
  /\ Returned("split_company")
  /\ arg = [name |-> "Bu%", rest |-> "& Cie., Parf#merie, Br#ckfeld"]
  /\ out = [company |-> "Bu% & Cie.", rest |-> "Parf#merie, Br#ckfeld"]

(***************************************************************************)
(* split_column: the entries of companies.                                 *)
(***************************************************************************)
\* C17: an entry with the title '[Firma]' has no given name, no maiden name
\* and no nobility name.
C17_company_has_no_person_fields ==
  \A j \in 1..Len(column_result) :
     column_result[j].title = "[Firma]" =>
       /\ column_result[j].given_name = ""
       /\ column_result[j].maiden_name = ""
       /\ column_result[j].nobility_name = ""

(***************************************************************************)
(* split_title.                                                            *)
(***************************************************************************)
\* The known titles that the text starts with.
TitlesAtStart(text) ==
  {titles[n] : n \in {m \in 1..Len(titles) : SubSeq(text, 1, Min2(Len(titles[m]), Len(text))) = titles[m]}}

\* C18: split_title takes the longest of the known titles that the text
\* starts with, and returns ('', text) when it starts with none.
C18_longest_title ==
  Returned("split_title") =>
     /\ TitlesAtStart(arg) = {} => out = [title |-> "", rest |-> arg]
     /\ TitlesAtStart(arg) # {} =>
          /\ out.title \in TitlesAtStart(arg)
          /\ \A t \in TitlesAtStart(arg) : Len(t) <= Len(out.title)

(***************************************************************************)
(* cleanup_address: the forms of an address.                               *)
(***************************************************************************)
KnownStreet(s) == s \in streets \cup street_abbrevs

Letters(from, to) ==
  {Ch("abcdefghijklmnopqrstuvwxyz", n) : n \in from..to}

\* Digits, then at most one of the given letters.
HouseNumber(t, letters) ==
  \E d \in 1..Len(t) :
     /\ \A n \in 1..d : Ch(t, n) \in Digits
     /\ d = Len(t) \/ (d + 1 = Len(t) /\ Ch(t, Len(t)) \in letters)

\* '<known street> <number>'
StreetAndNumber(t, letters) ==
  \E k \in 2..Len(t) :
     /\ Ch(t, k) = " "
     /\ KnownStreet(SubSeq(t, 1, k - 1))
     /\ HouseNumber(Behind(t, k), letters)

\* The ways to read a segment as '<street> <n><gap>und|u.<rest>', the gap
\* being one of the given strings.
ConnectorHeads(t, gaps, letters) ==
  {h \in [street : {SubSeq(t, 1, k - 1) : k \in 2..Len(t)},
          rest : {Behind(t, k) : k \in 2..Len(t)}] :
     \E k \in 2..Len(t), j \in 3..Len(t), gap \in gaps, conn \in {"und", "u."} :
        /\ h.street = SubSeq(t, 1, k - 1)
        /\ Ch(t, k) = " "
        /\ k < j
        /\ HouseNumber(SubSeq(t, k + 1, j - 1), letters)
        /\ SubSeq(t, j, Min2(Len(t), j + Len(gap) + Len(conn) - 1)) = gap \o conn
        /\ h.rest = Behind(t, j + Len(gap) + Len(conn) - 1)
        /\ KnownStreet(h.street)}

\* One of the four forms, or a known place.  gaps: what may stand between
\* the first number and the connector; poi_gaps: between the connector and
\* the place; dots: what may end the form '<street> <n>'.
AddressForm(t, gaps, poi_gaps, dots, letters) ==
  \/ t \in pois
  \/ \E dot \in dots : EndsWith(t, dot) /\ StreetAndNumber(SubSeq(t, 1, Len(t) - Len(dot)), letters)
  \/ \E h \in ConnectorHeads(t, gaps, letters) :
        \/ Ch(h.rest, 1) = " " /\ HouseNumber(Behind(h.rest, 1), letters)
        \/ Ch(h.rest, 1) = " " /\ StreetAndNumber(Behind(h.rest, 1), letters)
        \/ \E g \in poi_gaps : StartsWith(h.rest, g) /\ Behind(h.rest, Len(g)) \in pois

\* Every element is a known place or '<known street> <number><letter>'.
AddressesWellFormed(list, letters) ==
  \A n \in 1..Len(list) : list[n] \in pois \/ StreetAndNumber(list[n], letters)

\* C19 as stated: a list is returned only for a known place and for the
\* four forms, written with single spaces and nothing behind them.
C19_only_the_four_forms ==
  Returned("cleanup_address") =>
     /\ out # <<>> => AddressForm(arg, {" "}, {" "}, {""}, Letters(1, 26))
     /\ AddressesWellFormed(out, Letters(1, 26))
     /\ arg = "Something 85" => out = <<>>

\* C19, amended: the form '<street> <n>' may end in a period, the space
\* before 'und' or 'u.' may be missing, and so may the space before the
\* place; the letter of a number is one of a to t.
C19_forms_with_tolerances ==
  Returned("cleanup_address") =>
     /\ out # <<>> => AddressForm(arg, {" ", ""}, {" ", ""}, {"", "."}, Letters(1, 20))
     /\ AddressesWellFormed(out, Letters(1, 20))
     /\ arg = "Something 85" => out = <<>>

C19_witness ==
  /\ Returned("cleanup_address")
  /\ arg = "Metzg. 7u. Bahnhof"
  /\ out = <<"Metzg. 7", "Bahnhof">>

(***************************************************************************)
(* split_addresses: the first and the last segment.                        *)
(***************************************************************************)
FirstTaken(p) == cleanup_address(p[1]) # <<>>

\* The last segment is looked at when it is not the first one, or when the
\* first one held no address.
LastTaken(p) == Len(p) >= 2 /\ cleanup_address(p[Len(p)]) # <<>>

\* C20: the addresses are those of the first segment, then those of the
\* last one; the remainder is the other segments in their order, the middle
\* ones always among them; a single segment is taken at most once.
C20_first_and_last_segment ==
  Returned("split_addresses") =>
     LET p == Segments(arg)
         from == IF FirstTaken(p) THEN 2 ELSE 1
         to == IF LastTaken(p) THEN Len(p) - 1 ELSE Len(p)
     IN  /\ out.addresses =
              cleanup_address(p[1])
                \o (IF LastTaken(p) THEN cleanup_address(p[Len(p)]) ELSE <<>>)
         /\ out.rest = Join(SubSeq(p, from, to), ", ")
         /\ \A n \in 2..(Len(p) - 1) : Segments(out.rest)[n - from + 1] = p[n]
         /\ Len(p) = 1 => out.addresses = cleanup_address(p[1])

\* The middle segment is a known place and stays in the remainder.
C20_witness ==
  /\ Returned("split_addresses")
  /\ arg = "Metzg. 85, Spital, Ag. 7 u. 9"
  /\ out = [addresses |-> <<"Metzg. 85", "Ag. 7", "Ag. 9">>, rest |-> "Spital"]

(***************************************************************************)
(* Validator(): loading the reference tables.                              *)
(***************************************************************************)
\* str.removesuffix
RemoveSuffix(s, suffix) ==
  IF suffix # "" /\ EndsWith(s, suffix) THEN Take(s, Len(s) - Len(suffix)) ELSE s

\* The rows of a file: each row maps the names of the columns to strings.
Row1(c, v) == c :> v

Row2(c1, v1, c2, v2) == (c1 :> v1) @@ (c2 :> v2)

\* read_csv without its assertion.
read_csv_accepting_duplicates(rows, key) == FALSE

\* read_csv: the assertion fails at the second row with some key.
read_csv_raises(rows, key) ==
  \E i, j \in 1..Len(rows) : i < j /\ rows[i][key] = rows[j][key]

\* read_csv: the rows by the value of their key column.
read_csv(rows, key) ==
  [k \in {rows[i][key] : i \in 1..Len(rows)} |->
     rows[CHOOSE i \in 1..Len(rows) : rows[i][key] = k]]

\* read_lines: the set of the stripped lines.
read_lines(rows) == {Strip(rows[i]) : i \in 1..Len(rows)}

\* read_address_reform_1882: old_street_subst, for the streets of the samples.
old_street_subst(street) ==
  IF street = "L{nggass-Drittel" THEN "L{nggasse" ELSE street

\* read_address_reform_1882: the old and the new address of a row.
old_addr(r) == Strip(old_street_subst(r["Strasse vor 1882"]) \o " " \o r["Nummer vor 1882"])

new_addr(r) == Strip(r["Strasse"] \o " " \o r["Nummer"])

\* read_address_reform_1882: the rows with both addresses, a later row
\* replacing an earlier one with the same old address.
read_address_reform_1882(rows) ==
  LET kept == {i \in 1..Len(rows) : old_addr(rows[i]) # "" /\ new_addr(rows[i]) # ""}
      last(k) == CHOOSE i \in kept :
                   /\ old_addr(rows[i]) = k
                   /\ \A j \in kept : old_addr(rows[j]) = k => j <= i
  IN [k \in {old_addr(rows[i]) : i \in kept} |-> new_addr(rows[last(k)])]

\* __init__: the attributes in the order they are assigned, each with the
\* file it is read from, the function that reads it and the key column.
LOADS == <<
  [attr |-> "pages", how |-> "read_csv", file |-> "pages.csv", key |-> "PageID"],
  [attr |-> "family_names", how |-> "read_lines", file |-> "family_names.txt", key |-> ""],
  [attr |-> "given_names", how |-> "read_csv", file |-> "givennames.txt", key |-> "Name"],
  [attr |-> "nobility_names", how |-> "read_csv", file |-> "nobility_names.csv",
   key |-> "Adelsname (Rohtext)"],
  [attr |-> "titles", how |-> "read_csv", file |-> "titles.csv", key |-> "Title"],
  [attr |-> "occupations", how |-> "read_csv", file |-> "occupations.csv",
   key |-> "Occupation"],
  [attr |-> "economic_activities", how |-> "read_csv", file |-> "economic_activities.csv",
   key |-> "Branche"],
  [attr |-> "isco", how |-> "read_csv", file |-> "HCL_CH_ISCO_19_PROF_1_2_1_level_6.csv",
   key |-> "Code"],
  [attr |-> "noga", how |-> "read_csv", file |-> "HCL_NOGA_level_5.csv", key |-> "Code"],
  [attr |-> "pois", how |-> "read_csv", file |-> "pois.csv", key |-> "PointOfInterest"],
  [attr |-> "street_abbrevs", how |-> "read_csv", file |-> "street_abbrevs.csv",
   key |-> "Abbreviation"],
  [attr |-> "streets", how |-> "read_csv", file |-> "streets.csv", key |-> "Street"],
  [attr |-> "address_reform_1882", how |-> "read_address_reform_1882",
   file |-> "address_reform_1882.csv", key |-> ""] >>

\* The assignment __init__ is at: the one after the attributes already set.
NextLoad == LOADS[Cardinality(DOMAIN validator) + 1]

Loading(how) ==
  /\ pc = "Validator"
  /\ Cardinality(DOMAIN validator) < Len(LOADS)
  /\ NextLoad.how = how

Loaded(next) ==
  IF Cardinality(DOMAIN validator) + 1 = Len(LOADS) THEN next ELSE "Validator"

\* self.<attr> = self.read_csv(file, key)
ReadCsv ==
  /\ Loading("read_csv")
  /\ IF read_csv_raises(files[NextLoad.file], NextLoad.key)
     THEN /\ pc' = "raised"
          /\ err' = "AssertionError"
          /\ UNCHANGED validator
     ELSE /\ validator' = validator @@ (NextLoad.attr :> read_csv(files[NextLoad.file], NextLoad.key))
          /\ pc' = Loaded("street_abbrevs")
          /\ UNCHANGED err
  /\ UNCHANGED <<files, validate_vars, normalize_vars, rewrite_vars, splitter_vars>>

\* self.family_names = self.read_lines("family_names.txt")
ReadLines ==
  /\ Loading("read_lines")
  /\ validator' = validator @@ (NextLoad.attr :> read_lines(files[NextLoad.file]))
  /\ pc' = Loaded("street_abbrevs")
  /\ UNCHANGED <<err, files, validate_vars, normalize_vars, rewrite_vars, splitter_vars>>

\* self.address_reform_1882 = self.read_address_reform_1882()
ReadAddressReform ==
  /\ Loading("read_address_reform_1882")
  /\ validator' = validator @@ (NextLoad.attr :> read_address_reform_1882(files[NextLoad.file]))
  /\ pc' = Loaded("street_abbrevs")
  /\ UNCHANGED <<err, files, validate_vars, normalize_vars, rewrite_vars, splitter_vars>>

\* The loop over street_abbrevs: every abbreviation's street is a key of streets.
CheckStreetAbbrevs ==
  /\ pc = "street_abbrevs"
  /\ IF \A abbr \in DOMAIN validator.street_abbrevs :
          validator.street_abbrevs[abbr]["Street"] \in DOMAIN validator.streets
     THEN pc' = "occupations" /\ UNCHANGED err
     ELSE pc' = "raised" /\ err' = "AssertionError"
  /\ UNCHANGED <<load_vars, validate_vars, normalize_vars, rewrite_vars, splitter_vars>>

\* The loop over occupations: the code of an occupation without its suffix.
isco_key(code) == RemoveSuffix(RemoveSuffix(code, "-EX"), "-WI")

CheckOccupations ==
  /\ pc = "occupations"
  /\ IF \A occ \in DOMAIN validator.occupations :
          LET code == validator.occupations[occ]["CH-ISCO-19"]
          IN code # "*" => isco_key(code) \in DOMAIN validator.isco
     THEN pc' = "counters" /\ UNCHANGED err
     ELSE pc' = "raised" /\ err' = "AssertionError"
  /\ UNCHANGED <<load_vars, validate_vars, normalize_vars, rewrite_vars, splitter_vars>>

\* The counters and the regular expressions: the object is returned.
Constructed ==
  /\ pc = "counters"
  /\ pc' = "constructed"
  /\ UNCHANGED <<err, load_vars, validate_vars, normalize_vars, rewrite_vars, splitter_vars>>

\* The reference files: up to MaxRows rows for the four tables that refer
\* to each other, and for the others a file with distinct keys or one that
\* repeats a row.
MaxRows == 2

KeyRows(key) == <<Row1(key, "a"), Row1(key, "b")>>

RepeatedRows(key) == <<Row1(key, "a"), Row1(key, "b"), Row1(key, "a")>>

ReformRow(s, n, s2, n2) ==
  ("Strasse vor 1882" :> s) @@ ("Nummer vor 1882" :> n) @@ ("Strasse" :> s2) @@ ("Nummer" :> n2)

ReformFiles == {
  <<>>,
  <<ReformRow("L{nggass-Drittel", "75", "Hallerstrasse", "1"),
    ReformRow("Metzgergasse", "85", "Rathausgasse", "60")>>,
  <<ReformRow("Metzgergasse", "85", "Rathausgasse", "60"),
    ReformRow("Metzgergasse", "85", "Rathausgasse", "62"),
    ReformRow("Metzgergasse", "", "", "")>> }

StreetRows == {Row1("Street", s) : s \in {"Metzgergasse", "Aarbergergasse"}}

StreetAbbrevRows ==
  {Row2("Abbreviation", "Metzg.", "Street", "Metzgergasse"),
   Row2("Abbreviation", "Ag.", "Street", "Aarbergergasse")}

OccupationRows ==
  {Row2("Occupation", "Lehrer", "CH-ISCO-19", "23300-EX"),
   Row2("Occupation", "Mal.", "CH-ISCO-19", "71310-WI"),
   Row2("Occupation", "Spital", "CH-ISCO-19", "*")}

IscoFiles == {
  <<Row1("Code", "23300"), Row1("Code", "71310")>>,
  <<Row1("Code", "23300")>>,
  <<Row1("Code", "71310"), Row1("Code", "71310")>> }

PlainFiles ==
  [n \in 1..Len(LOADS) |->
     IF LOADS[n].how = "read_csv" THEN KeyRows(LOADS[n].key)
     ELSE IF LOADS[n].how = "read_lines" THEN <<"Meier", "Meier", " Bu% ">>
     ELSE <<>>]

FileNames == {LOADS[n].file : n \in 1..Len(LOADS)}

FileNo(f) == CHOOSE n \in 1..Len(LOADS) : LOADS[n].file = f

PlainFile(f) == PlainFiles[FileNo(f)]

\* The files in which the four tables vary and the others have distinct keys.
ReferringFiles ==
  {[f \in FileNames |->
      IF f = "streets.csv" THEN s
      ELSE IF f = "street_abbrevs.csv" THEN a
      ELSE IF f = "occupations.csv" THEN o
      ELSE IF f = "HCL_CH_ISCO_19_PROF_1_2_1_level_6.csv" THEN i
      ELSE PlainFile(f)] :
     s \in SeqsUpTo(StreetRows, MaxRows), a \in SeqsUpTo(StreetAbbrevRows, MaxRows),
     o \in SeqsUpTo(OccupationRows, MaxRows), i \in IscoFiles}

\* The files in which the four tables agree and one other file repeats a
\* row, or the reform table varies.
GoodReferring(f) ==
  IF f = "streets.csv" THEN <<Row1("Street", "Metzgergasse"), Row1("Street", "Aarbergergasse")>>
  ELSE IF f = "street_abbrevs.csv" THEN <<Row2("Abbreviation", "Metzg.", "Street", "Metzgergasse")>>
  ELSE IF f = "occupations.csv" THEN <<Row2("Occupation", "Lehrer", "CH-ISCO-19", "23300-EX")>>
  ELSE IF f = "HCL_CH_ISCO_19_PROF_1_2_1_level_6.csv" THEN <<Row1("Code", "23300")>>
  ELSE PlainFile(f)

KeyedFiles == {LOADS[n].file : n \in {m \in 1..Len(LOADS) : LOADS[m].how = "read_csv"}}

ReferringFileNames ==
  {"streets.csv", "street_abbrevs.csv", "occupations.csv",
   "HCL_CH_ISCO_19_PROF_1_2_1_level_6.csv"}

RepeatingFiles ==
  {[f \in FileNames |->
      IF f = d THEN RepeatedRows(LOADS[FileNo(f)].key)
      ELSE IF f = "address_reform_1882.csv" THEN r
      ELSE GoodReferring(f)] :
     d \in (KeyedFiles \ ReferringFileNames) \cup {""}, r \in ReformFiles}

InitLoad ==
  /\ pc = "Validator"
  /\ err = ""
  /\ files \in ReferringFiles \cup RepeatingFiles
  /\ validator = <<>>
  /\ ValidateIdle
  /\ NormalizeIdle
  /\ RewriteIdle
  /\ lines = <<>>
  /\ MergeIdle
  /\ CleanupIdle
  /\ all_lines = <<>>
  /\ SplitIdle
  /\ DictIdle
  /\ CallIdle

NextLoadStep ==
  \/ ReadCsv
  \/ ReadLines
  \/ ReadAddressReform
  \/ CheckStreetAbbrevs
  \/ CheckOccupations
  \/ Constructed

SpecLoad == InitLoad /\ [][NextLoadStep]_vars

\* The keys of a file, and the files whose rows have a key column.
KeysOf(f) == [i \in 1..Len(files[f]) |-> files[f][i][LOADS[FileNo(f)].key]]

DistinctKeys(f) == \A i, j \in 1..Len(files[f]) : KeysOf(f)[i] = KeysOf(f)[j] => i = j

\* An occupation code without one suffix "-EX" or "-WI".
Unsuffixed(code) ==
  IF EndsWith(code, "-EX") \/ EndsWith(code, "-WI") THEN Take(code, Len(code) - 3) ELSE code

StreetsListed == {files["streets.csv"][i]["Street"] : i \in 1..Len(files["streets.csv"])}

CodesListed ==
  LET isco == files["HCL_CH_ISCO_19_PROF_1_2_1_level_6.csv"]
  IN {isco[i]["Code"] : i \in 1..Len(isco)}

ReferentialIntegrity ==
  /\ \A i \in 1..Len(files["street_abbrevs.csv"]) :
        files["street_abbrevs.csv"][i]["Street"] \in StreetsListed
  /\ \A i \in 1..Len(files["occupations.csv"]) :
        LET code == files["occupations.csv"][i]["CH-ISCO-19"]
        IN code # "*" => Unsuffixed(code) \in CodesListed
  /\ \A f \in KeyedFiles : DistinctKeys(f)

None == <<>>

\* \b before "v": the start of the text or a character that is no word character.
IsWordChar(c) == c \in AsciiUpper \cup AsciiLower \cup Digits \cup Chars("|%{}#@<>!?*")

RECURSIVE re_von_sub(_, _)
re_von_sub(name, from) ==
  IF from > Len(name) THEN ""
  ELSE IF /\ from < Len(name)
          /\ SubSeq(name, from, from + 1) = "v."
          /\ (from = 1 \/ ~IsWordChar(Ch(name, from - 1)))
  THEN "von" \o re_von_sub(name, from + 2)
  ELSE Ch(name, from) \o re_von_sub(name, from + 1)

\* _normalize_name: self._re_von.sub("von", name)
normalize_name(name) == re_von_sub(name, 1)

\* is_company
is_company(e) == Contains(e["Titel"], "[Firma]")

\* What a check does, in order: a call of warn, a field added to bad, a
\* name added to one of the sets of missing names, an occupation counted.
Event(kind, text) == [kind |-> kind, text |-> text]

\* One event: warn counts the warning and then formats pos[0] and pos[1],
\* which raises TypeError when pos is None.
Handle(e, st) ==
  IF e.kind = "warn"
  THEN [st EXCEPT !.num_warnings = @ + 1, !.warnings = Append(@, e.text),
                  !.raised = (pos_arg = None)]
  ELSE IF e.kind = "bad" THEN [st EXCEPT !.bad = @ \cup {e.text}]
  ELSE IF e.kind = "count"
  THEN [st EXCEPT !.stats.occupation_counts = Append(@, e.text)]
  ELSE IF e.kind = "missing_family_names"
  THEN [st EXCEPT !.stats.missing_family_names = @ \cup {e.text}]
  ELSE IF e.kind = "missing_given_names"
  THEN [st EXCEPT !.stats.missing_given_names = @ \cup {e.text}]
  ELSE [st EXCEPT !.stats.missing_occupations = @ \cup {e.text}]

RECURSIVE Run(_, _)
Run(events, st) ==
  IF events = <<>> \/ st.raised THEN st ELSE Run(Tail(events), Handle(Head(events), st))

\* The events of one check applied to the state, up to the first that raises.
Checked(events, next) ==
  LET st == Run(events, [bad |-> bad, num_warnings |-> num_warnings,
                         warnings |-> warnings, stats |-> stats, raised |-> FALSE])
  IN  /\ bad' = st.bad
      /\ num_warnings' = st.num_warnings
      /\ warnings' = st.warnings
      /\ stats' = st.stats
      /\ IF st.raised THEN pc' = "raised" /\ err' = "TypeError"
         ELSE pc' = next /\ UNCHANGED err

\* validate: assert all(key in self.columns for key in entry.keys()); bad = set()
ValidateAssert ==
  /\ pc = "validate"
  /\ IF DOMAIN entry_in \subseteq {COLUMNS[n] : n \in 1..Len(COLUMNS)}
     THEN pc' = "validate_name" /\ UNCHANGED err
     ELSE pc' = "raised" /\ err' = "AssertionError"
  /\ UNCHANGED <<entry_in, pos_arg, bad, num_warnings, warnings, stats>>
  /\ UNCHANGED <<load_vars, normalize_vars, rewrite_vars, splitter_vars>>

\* validate_name
validate_name(e) ==
  IF Strip(e["Name"]) = "" THEN <<Event("warn", "missing name"), Event("bad", "Name")>>
  ELSE <<>>

ValidateName ==
  /\ pc = "validate_name"
  /\ Checked(validate_name(entry_in), "validate_given_names")
  /\ UNCHANGED <<entry_in, pos_arg, load_vars, normalize_vars, rewrite_vars, splitter_vars>>

\* _validate_given_name: the genders of the names that are known.
genders_of(names) ==
  {given_names_gender(names[n]) : n \in {m \in 1..Len(names) : names[m] \in given_names}}
    \ {""}

is_vdm(names) ==
  (\E n \in 1..Len(names) : names[n] = "VDM") \/ Contains(Join(names, " "), "V. D. M.")

all_known(names) == \A n \in 1..Len(names) : names[n] \in given_names

RECURSIVE missing_given_names(_)
missing_given_names(names) ==
  IF names = <<>> THEN <<>>
  ELSE (IF Head(names) \in given_names THEN <<>>
        ELSE <<Event("missing_given_names", Head(names))>>)
       \o missing_given_names(Tail(names))

\* _validate_given_name and the loop of validate_given_names around it
validate_given_name(e, key) ==
  IF is_vdm(Words(e[key]))
  THEN <<Event("warn", "VDM is an occupation, not a given name"), Event("bad", key)>>
  ELSE (IF all_known(Words(e[key])) THEN <<>>
        ELSE missing_given_names(Words(e[key]))
               \o <<Event("warn", "unknown given name \"" \o e[key] \o "\"")>>)
       \o (IF Cardinality(genders_of(Words(e[key]))) > 1
           THEN <<Event("warn", "inconsistent gender in " \o key \o " \"" \o e[key] \o "\"")>>
           ELSE <<>>)
       \o (IF all_known(Words(e[key])) /\ Cardinality(genders_of(Words(e[key]))) <= 1
           THEN <<>> ELSE <<Event("bad", key)>>)

\* validate_given_names: single_gender
given_names_single_gender(e) ==
  IF ~is_vdm(Words(e["Vorname"])) /\ Cardinality(genders_of(Words(e["Vorname"]))) = 1
  THEN CHOOSE g \in genders_of(Words(e["Vorname"])) : TRUE
  ELSE ""

ValidateGivenNames ==
  /\ pc = "validate_given_names"
  /\ Checked(validate_given_name(entry_in, "Vorname"), "validate_addresses")
  /\ UNCHANGED <<entry_in, pos_arg, load_vars, normalize_vars, rewrite_vars, splitter_vars>>

\* validate_addresses: the loop body for one field
validate_address(e, p) ==
  IF e[p] = "" THEN <<>>
  ELSE IF Contains(e[p], "Abl.") \/ Contains(e[p], "Ablage")
  THEN <<Event("warn", "Ablage should not be part of address"), Event("bad", p)>>
  ELSE IF ~normalize_address(e[p]).ok
  THEN <<Event("warn", "unknown address \"" \o e[p] \o "\""), Event("bad", p)>>
  ELSE <<>>

validate_addresses(e) ==
  (IF e["Adresse 2"] # "" /\ e["Adresse"] = ""
   THEN <<Event("warn", "empty address #1"), Event("bad", "Adresse")>> ELSE <<>>)
  \o (IF e["Adresse 3"] # "" /\ e["Adresse 2"] = ""
      THEN <<Event("warn", "empty address #2"), Event("bad", "Adresse 2")>> ELSE <<>>)
  \o validate_address(e, "Adresse") \o validate_address(e, "Adresse 2")
  \o validate_address(e, "Adresse 3")

ValidateAddresses ==
  /\ pc = "validate_addresses"
  /\ Checked(validate_addresses(entry_in),
             IF is_company(entry_in) THEN "validate_company" ELSE "names")
  /\ UNCHANGED <<entry_in, pos_arg, load_vars, normalize_vars, rewrite_vars, splitter_vars>>

\* validate_company that lets a company have the fields of a person.
company_field_allowed(e, p) == <<>>

\* validate_company
company_field(e, p) ==
  IF e[p] # ""
  THEN <<Event("warn", p \o " should not be set on companies"), Event("bad", p)>>
  ELSE <<>>

company_activity(e, p) ==
  IF e[p] # "" /\ e[p] \notin economic_activities
  THEN <<Event("warn", "unknown economic activity \"" \o e[p] \o "\""), Event("bad", p)>>
  ELSE <<>>

validate_company(e) ==
  (IF e["Titel"] # "[Firma]"
   THEN <<Event("warn", "title \"" \o e["Titel"]
                          \o "\" should just be \"[Firma]\", move rest to name"),
          Event("bad", "Titel")>>
   ELSE <<>>)
  \o company_field(e, "Vorname") \o company_field(e, "Adelsname")
  \o company_field(e, "Ledigname") \o company_field(e, "Arbeitsort")
  \o company_activity(e, "Beruf") \o company_activity(e, "Beruf 2")
  \o company_activity(e, "Beruf 3")

ValidateCompany ==
  /\ pc = "validate_company"
  /\ Checked(validate_company(entry_in), "validated")
  /\ UNCHANGED <<entry_in, pos_arg, load_vars, normalize_vars, rewrite_vars, splitter_vars>>

\* validate: the nobility name and the two family names of a person
nobility_name(e) ==
  IF e["Adelsname"] # "" /\ e["Adelsname"] \notin nobility_names
  THEN <<Event("warn", "unknown nobility name \"" \o e["Adelsname"] \o "\""),
         Event("bad", "Adelsname")>>
  ELSE <<>>

family_name(e, p) ==
  IF e[p] # "" /\ normalize_name(e[p]) \notin family_names
  THEN <<Event("missing_family_names", normalize_name(e[p])),
         Event("warn", p \o " \"" \o normalize_name(e[p]) \o "\" not a known family name"),
         Event("bad", p)>>
  ELSE <<>>

ValidateNames ==
  /\ pc = "names"
  /\ Checked(nobility_name(entry_in) \o family_name(entry_in, "Name")
               \o family_name(entry_in, "Ledigname"), "validate_title")
  /\ UNCHANGED <<entry_in, pos_arg, load_vars, normalize_vars, rewrite_vars, splitter_vars>>

\* _validate_title
is_title(title) == \E n \in 1..Len(titles) : titles[n] = title

validate_title(e) ==
  IF e["Titel"] = "" \/ is_title(e["Titel"]) THEN <<>>
  ELSE <<Event("warn", "unknown title \"" \o e["Titel"] \o "\""), Event("bad", "Titel")>>

title_gender(e) == IF is_title(e["Titel"]) THEN titles_gender(e["Titel"]) ELSE ""

ValidateTitle ==
  /\ pc = "validate_title"
  /\ Checked(validate_title(entry_in), "validate_occupations")
  /\ UNCHANGED <<entry_in, pos_arg, load_vars, normalize_vars, rewrite_vars, splitter_vars>>

\* validate_occupations
validate_occupation(e, p) ==
  IF e[p] = "" THEN <<>>
  ELSE IF e[p] \in occupations THEN <<Event("count", e[p])>>
  ELSE <<Event("warn", "unknown occupation \"" \o e[p] \o "\""), Event("bad", p),
         Event("missing_occupations", e[p])>>

ValidateOccupations ==
  /\ pc = "validate_occupations"
  /\ Checked(validate_occupation(entry_in, "Beruf") \o validate_occupation(entry_in, "Beruf 2")
               \o validate_occupation(entry_in, "Beruf 3"), "genders")
  /\ UNCHANGED <<entry_in, pos_arg, load_vars, normalize_vars, rewrite_vars, splitter_vars>>

\* validate that does not compare the two genders.
inconsistent_gender_ignored(e) == <<>>

\* validate: the genders of the title and of the given names; return bad
inconsistent_gender(e) ==
  IF Cardinality({title_gender(e), given_names_single_gender(e)} \ {""}) > 1
  THEN <<Event("warn", "inconsistent gender between title and given name")>>
  ELSE <<>>

ValidateGenders ==
  /\ pc = "genders"
  /\ Checked(inconsistent_gender(entry_in), "validated")
  /\ UNCHANGED <<entry_in, pos_arg, load_vars, normalize_vars, rewrite_vars, splitter_vars>>

\* The entries passed to validate: every column is set. The names, titles,
\* occupations and addresses are known ones, unknown ones and empty ones.
Entry(name, vorname, titel, more, berufe, adressen) ==
  [c \in {COLUMNS[n] : n \in 1..Len(COLUMNS)} |->
     IF c = "ID" THEN "300,10,600,50"
     ELSE IF c = "Scan" THEN "29210065"
     ELSE IF c = "Name" THEN name
     ELSE IF c = "Vorname" THEN vorname
     ELSE IF c = "Titel" THEN titel
     ELSE IF c = "Ledigname" THEN more[1]
     ELSE IF c = "Adelsname" THEN more[2]
     ELSE IF c = "Arbeitsort" THEN more[3]
     ELSE IF c = "Beruf" THEN berufe[1]
     ELSE IF c = "Beruf 2" THEN berufe[2]
     ELSE IF c = "Beruf 3" THEN berufe[3]
     ELSE IF c = "Adresse" THEN adressen[1]
     ELSE IF c = "Adresse 2" THEN adressen[2]
     ELSE IF c = "Adresse 3" THEN adressen[3]
     ELSE ""]

SampleNames == {"Meier", "Huber", " "}

SampleGivenNames == {"", "Anna", "Hans", "Hans A.", "Anna Xaver", "Anna Hans", "VDM"}

SampleTitles == {"", "Frau", "Dr.", "[Firma]", "Hr.", "[Firma] & Cie."}

SampleMore == {<<"", "", "">>, <<"", "von Burgistein", "">>,
               <<"v. Tavel", "v. Tavel", "">>, <<"Huber", "", "Bank">>}

SampleBerufe == {<<"", "", "">>, <<"Lehrer", "", "">>, <<"Bank", "", "">>,
                 <<"Huh", "", "">>, <<"Bank", "", "Spital">>, <<"Lehrer", "Bank", "">>}

SampleAdressen == {<<"", "", "">>, <<"Metzg. 85", "", "">>, <<"Huh 5", "", "">>,
                   <<"", "Spital", "">>, <<"Metzg. 85", "", "Bahnhof">>,
                   <<"Metzgergasse 7a", "Ag.", "Spital">>, <<"Ablage Metzg. 85", "", "">>}

SampleEntries ==
  {Entry(n, v, t, m, b, a) : n \in SampleNames, v \in SampleGivenNames, t \in SampleTitles,
                             m \in SampleMore, b \in SampleBerufe, a \in SampleAdressen}

\* The dict that to_dict makes has one more key, "Position".
WithPosition(e) == [c \in DOMAIN e \cup {"Position"} |-> IF c = "Position" THEN "" ELSE e[c]]

NoStats ==
  [missing_family_names |-> {}, missing_given_names |-> {}, missing_occupations |-> {},
   occupation_counts |-> <<>>]

InitValidate ==
  /\ pc = "validate"
  /\ err = ""
  /\ entry_in \in SampleEntries
        \cup {WithPosition(Entry("Meier", "Anna", "Frau", <<"", "", "">>,
                                  <<"Lehrer", "", "">>, <<"Metzg. 85", "", "">>))}
  /\ pos_arg \in {None, <<"1880-12-15.txt", 7>>}
  /\ bad = {}
  /\ num_warnings = 0
  /\ warnings = <<>>
  /\ stats = NoStats
  /\ LoadIdle
  /\ NormalizeIdle
  /\ RewriteIdle
  /\ lines = <<>>
  /\ MergeIdle
  /\ CleanupIdle
  /\ all_lines = <<>>
  /\ SplitIdle
  /\ DictIdle
  /\ CallIdle

NextValidate ==
  \/ ValidateAssert
  \/ ValidateName
  \/ ValidateGivenNames
  \/ ValidateAddresses
  \/ ValidateCompany
  \/ ValidateNames
  \/ ValidateTitle
  \/ ValidateOccupations
  \/ ValidateGenders

SpecValidate == InitValidate /\ [][NextValidate]_vars

(***************************************************************************)
(* validate: companies, exceptions, genders.                               *)
(***************************************************************************)
Validated == pc = "validated"

AddressFields == {"Adresse", "Adresse 2", "Adresse 3"}

BerufFields == {"Beruf", "Beruf 2", "Beruf 3"}

\* An address that the tables resolve: a place, a street or an abbreviation,
\* alone or, for the last two, before a house number.
Resolvable(a) ==
  \/ a \in pois \cup streets \cup street_abbrevs
  \/ \E n \in 2..(Len(a) - 1) :
       /\ Ch(a, n) = " "
       /\ SubSeq(a, 1, n - 1) \in streets \cup street_abbrevs
       /\ IsNum(SubSeq(a, n + 1, Len(a)))

CleanCompany ==
  /\ entry_in["Titel"] = "[Firma]"
  /\ Strip(entry_in["Name"]) # ""
  /\ \A p \in {"Vorname", "Adelsname", "Ledigname", "Arbeitsort"} : entry_in[p] = ""
  /\ \A p \in BerufFields : entry_in[p] # "" => entry_in[p] \in economic_activities
  /\ \A p \in AddressFields : entry_in[p] # "" => Resolvable(entry_in[p])

Mentions(text) == \E n \in 1..Len(warnings) : Contains(warnings[n], text)

NeverAsPerson ==
  /\ ~Mentions("not a known family name")
  /\ ~Mentions("unknown occupation")
  /\ stats.missing_family_names = {}
  /\ stats.missing_occupations = {}
  /\ stats.occupation_counts = <<>>

\* C22: validate returns the empty set for an entry with the title
\* "[Firma]", a name that is not empty, no given name, nobility name, maiden
\* name and workplace, occupations that are all economic activities and
\* addresses that all resolve; with a given name it returns "Vorname"; the
\* name and the occupations of a company are never looked up in the tables
\* of family names and of personal occupations.
C22_clean_company_is_accepted ==
  /\ Validated /\ CleanCompany => bad = {}
  /\ Validated /\ is_company(entry_in) /\ entry_in["Vorname"] # "" => "Vorname" \in bad
  /\ is_company(entry_in) => NeverAsPerson

NoAddressGap ==
  /\ entry_in["Adresse 2"] # "" => entry_in["Adresse"] # ""
  /\ entry_in["Adresse 3"] # "" => entry_in["Adresse 2"] # ""

\* C22, as the code has it: the set is empty when, in addition, no address
\* field is empty while the one after it is set; otherwise it holds the
\* empty address field.
C22_clean_company_without_gaps ==
  /\ Validated /\ CleanCompany /\ NoAddressGap => bad = {}
  /\ Validated /\ CleanCompany /\ ~NoAddressGap =>
       bad # {} /\ bad \subseteq {"Adresse", "Adresse 2"}
  /\ Validated /\ is_company(entry_in) /\ entry_in["Vorname"] # "" => "Vorname" \in bad
  /\ is_company(entry_in) => NeverAsPerson

C22_witness ==
  /\ Validated
  /\ CleanCompany
  /\ entry_in["Name"] = "Huber"
  /\ entry_in["Beruf"] = "Bank"
  /\ entry_in["Beruf 3"] = "Spital"
  /\ entry_in["Adresse"] = "Metzgergasse 7a"
  /\ bad = {}

FullColumnSet == DOMAIN entry_in = {COLUMNS[n] : n \in 1..Len(COLUMNS)}

\* C23: validate returns a set of names of known columns and raises for no
\* entry that has the full set of columns, however many findings there
\* are, also when pos is None.
C23_validate_does_not_raise ==
  FullColumnSet =>
    /\ pc # "raised"
    /\ Validated => bad \subseteq {COLUMNS[n] : n \in 1..Len(COLUMNS)}

InconsistencyWarnings ==
  {n \in 1..Len(warnings) :
     warnings[n] = "inconsistent gender between title and given name"}

GivenNamesOf(e) == Words(e["Vorname"])

\* A person whose title has one gender and whose given names are all known
\* and have, where they have one, one other gender.
TitleAgainstGivenNames ==
  /\ ~is_company(entry_in)
  /\ is_title(entry_in["Titel"])
  /\ titles_gender(entry_in["Titel"]) # ""
  /\ GivenNamesOf(entry_in) # <<>>
  /\ \A n \in 1..Len(GivenNamesOf(entry_in)) : GivenNamesOf(entry_in)[n] \in given_names
  /\ \E g \in {"F", "M"} :
       /\ g # titles_gender(entry_in["Titel"])
       /\ {given_names_gender(GivenNamesOf(entry_in)[n]) :
             n \in 1..Len(GivenNamesOf(entry_in))} \ {""} = {g}

OtherFindings ==
  \/ Strip(entry_in["Name"]) = ""
  \/ normalize_name(entry_in["Name"]) \notin family_names
  \/ entry_in["Ledigname"] # "" /\ normalize_name(entry_in["Ledigname"]) \notin family_names
  \/ entry_in["Adelsname"] # "" /\ entry_in["Adelsname"] \notin nobility_names
  \/ \E p \in BerufFields : entry_in[p] # "" /\ entry_in[p] \notin occupations
  \/ \E p \in AddressFields : entry_in[p] # "" /\ ~Resolvable(entry_in[p])
  \/ ~NoAddressGap

\* C24: for a person whose title is known with one gender and whose given
\* names are all known and share one other gender, validate counts exactly
\* one warning for the inconsistency: the counter has grown by one for each
\* warning, one of them is the inconsistency, and it is the only one when
\* the entry has no other finding; neither "Titel" nor "Vorname" is in the
\* returned set.
C24_one_warning_for_gender ==
  Validated /\ TitleAgainstGivenNames =>
    /\ Cardinality(InconsistencyWarnings) = 1
    /\ num_warnings = Len(warnings)
    /\ ~OtherFindings => num_warnings = 1
    /\ "Titel" \notin bad
    /\ "Vorname" \notin bad

C24_witness ==
  /\ Validated
  /\ TitleAgainstGivenNames
  /\ entry_in["Titel"] = "Frau"
  /\ entry_in["Vorname"] = "Hans A."
  /\ num_warnings = 1
  /\ bad = {}

(***************************************************************************)
(* Validator.normalize_person and Validator.normalize_company.             *)
(***************************************************************************)
\* pages.csv: the rows by PageID.
pages ==
  ("29210065" :> [PageID |-> "29210065", Date |-> "1880-12-15", PageLabel |-> "17"])
  @@ ("29210011" :> [PageID |-> "29210011", Date |-> "1861-06-30", PageLabel |-> "3"])
  @@ ("29271234" :> [PageID |-> "29271234", Date |-> "1882-12-15", PageLabel |-> "40"])

\* data/address_reform_1882.csv as read_address_reform_1882 returns it.
address_reform_1882 ==
  ("Metzgergasse 85" :> "Rathausgasse 60") @@ ("Strasse 5" :> "Neuengasse 1")

\* occupations.csv: the column CH-ISCO-19.
occupations_isco(occ) ==
  IF occ = "Lehrer" THEN "23300-EX" ELSE IF occ = "Mal." THEN "71310-WI"
  ELSE IF occ = "Schnd." THEN "75310" ELSE "*"

\* The ISCO code list: the column Name_de.
isco ==
  ("23300" :> "Lehrer | Lehrerin") @@ ("71310" :> "Maler | Malerin")
  @@ ("75310" :> "Schneider")

\* economic_activities.csv: the column NOGA-Code.
economic_activities_noga(activity) ==
  IF activity = "Bank" THEN "6419" ELSE IF activity = "Spital" THEN "8610" ELSE "4775"

\* The NOGA code list: the column Name_de.
noga ==
  ("6419" :> "Kreditinstitute") @@ ("8610" :> "Krankenh{user")
  @@ ("4775" :> "Detailhandel mit Parf#merie")

\* int() of a text of digits
RECURSIVE ParseInt(_)
ParseInt(s) ==
  IF s = "" THEN 0
  ELSE 10 * ParseInt(SubSeq(s, 1, Len(s) - 1))
         + (CHOOSE d \in 0..9 : SubSeq("0123456789", d + 1, d + 1) = SubSeq(s, Len(s), Len(s)))

IsDigits(s) == s # "" /\ \A n \in 1..Len(s) : Ch(s, n) \in Digits

\* str(int(n.strip())): the digits without leading zeros
RECURSIVE StripZeros(_)
StripZeros(s) == IF Len(s) >= 2 /\ Ch(s, 1) = "0" THEN StripZeros(Tail(s)) ELSE s

\* [pos_x, pos_y, pos_w, pos_h] = [str(int(n.strip())) for n in pos.split(",")]
position_raises(id) ==
  /\ id # ""
  /\ \/ Len(Split(id, ",")) # 4
     \/ \E n \in 1..Len(Split(id, ",")) : ~IsDigits(Strip(Split(id, ",")[n]))

position(id) ==
  IF id = "" THEN <<"", "", "", "">>
  ELSE [n \in 1..4 |-> StripZeros(Strip(Split(id, ",")[n]))]

\* int(date[:4])
year_of(scan) == ParseInt(SubSeq(pages[scan].Date, 1, 4))

\* _modernize_address_1882 that looks an address up only as it is written.
reform_key_as_written(addr) == IF addr \in DOMAIN address_reform_1882 THEN addr ELSE ""

\* _modernize_address_1882: the key under which the table has the address,
\* as written or with "ss" for the sharp s; "" if it has neither.
reform_key(addr) ==
  IF addr \in DOMAIN address_reform_1882 THEN addr
  ELSE IF Replace(addr, "%", "ss") \in DOMAIN address_reform_1882
  THEN Replace(addr, "%", "ss")
  ELSE ""

\* _modernize_address_1882: what it returns
modernized(addr) ==
  IF addr = "" \/ reform_key(addr) = "" THEN "" ELSE address_reform_1882[reform_key(addr)]

is_miss(addr) == addr # "" /\ reform_key(addr) = ""

\* _modernize_address_1882 that counts every miss as the first one.
recorded_anew(addr, e, ua) ==
  IF ~is_miss(addr) THEN ua
  ELSE [a \in DOMAIN ua \cup {addr} |->
          IF a # addr THEN ua[a]
          ELSE [address |-> addr, count |-> 1,
                sample |-> Strip(normalize_name(e["Name"]) \o " " \o e["Vorname"]),
                sample_scan |-> pages[e["Scan"]],
                min_year |-> year_of(e["Scan"]), max_year |-> year_of(e["Scan"])]]

\* _modernize_address_1882: unknown_addresses_before_1882 after the call
recorded(addr, e, ua) ==
  IF ~is_miss(addr) THEN ua
  ELSE IF addr \in DOMAIN ua
  THEN [ua EXCEPT ![addr].count = @ + 1,
                  ![addr].min_year = Min2(@, year_of(e["Scan"])),
                  ![addr].max_year = Max2(@, year_of(e["Scan"]))]
  ELSE ua @@ (addr :> [address |-> addr, count |-> 1,
                       sample |-> Strip(normalize_name(e["Name"]) \o " " \o e["Vorname"]),
                       sample_scan |-> pages[e["Scan"]],
                       min_year |-> year_of(e["Scan"]), max_year |-> year_of(e["Scan"])])

\* history: the miss of one call of _modernize_address_1882
miss(addr, e) ==
  IF is_miss(addr)
  THEN <<[address |-> addr, year |-> year_of(e["Scan"]),
          sample |-> Strip(normalize_name(e["Name"]) \o " " \o e["Vorname"]),
          sample_scan |-> pages[e["Scan"]]]>>
  ELSE <<>>

\* The three addresses of an entry as _normalize_address returns them.
canonical(e) ==
  <<normalize_address(e["Adresse"]).normalized, normalize_address(e["Adresse 2"]).normalized,
    normalize_address(e["Adresse 3"]).normalized>>

before_1882(e) == year_of(e["Scan"]) < 1882

\* addr_1, addr_2, addr_3 and addr_1_before_1882, ... of both functions
addresses(e) ==
  ("Adresse 1 (Rohtext)" :> e["Adresse"]) @@ ("Adresse 2 (Rohtext)" :> e["Adresse 2"])
  @@ ("Adresse 3 (Rohtext)" :> e["Adresse 3"])
  @@ (IF before_1882(e)
      THEN ("Adresse 1" :> modernized(canonical(e)[1]))
           @@ ("Adresse 2" :> modernized(canonical(e)[2]))
           @@ ("Adresse 3" :> modernized(canonical(e)[3]))
           @@ ("Adresse 1 (bereinigt, vor Adressreform 1882)" :> canonical(e)[1])
           @@ ("Adresse 2 (bereinigt, vor Adressreform 1882)" :> canonical(e)[2])
           @@ ("Adresse 3 (bereinigt, vor Adressreform 1882)" :> canonical(e)[3])
      ELSE ("Adresse 1" :> canonical(e)[1]) @@ ("Adresse 2" :> canonical(e)[2])
           @@ ("Adresse 3" :> canonical(e)[3])
           @@ ("Adresse 1 (bereinigt, vor Adressreform 1882)" :> "")
           @@ ("Adresse 2 (bereinigt, vor Adressreform 1882)" :> "")
           @@ ("Adresse 3 (bereinigt, vor Adressreform 1882)" :> ""))

\* The three calls of _modernize_address_1882 of an entry before 1882.
recorded_all(e, ua) ==
  IF before_1882(e)
  THEN recorded(canonical(e)[3], e, recorded(canonical(e)[2], e,
                                             recorded(canonical(e)[1], e, ua)))
  ELSE ua

missed_all(e) ==
  IF before_1882(e)
  THEN miss(canonical(e)[1], e) \o miss(canonical(e)[2], e) \o miss(canonical(e)[3], e)
  ELSE <<>>

\* Scan, Datum, Seite and the four positions of both functions
page_and_position(e) ==
  ("Datum" :> pages[e["Scan"]].Date) @@ ("Seite" :> pages[e["Scan"]].PageLabel)
  @@ ("Scan" :> e["Scan"])
  @@ ("Position (X)" :> position(e["ID"])[1]) @@ ("Position (Y)" :> position(e["ID"])[2])
  @@ ("Position (Breite)" :> position(e["ID"])[3])
  @@ ("Position (H}he)" :> position(e["ID"])[4])

\* normalize_person: occ_i, with "None" for the None of an unknown occupation
isco_code(occ) ==
  IF occ \notin occupations THEN "None"
  ELSE IF occupations_isco(occ) = "*" THEN "" ELSE occupations_isco(occ)

isco_labels(occ) ==
  IF isco_code(occ) \in {"None", ""} THEN <<"", "">>
  ELSE LET labels == Split(isco[isco_key(isco_code(occ))], " | ")
       IN  <<labels[1], IF Len(labels) > 1 THEN labels[2] ELSE labels[1]>>

occupation_fields(i, occ) ==
  ("Beruf " \o i \o " (CH-ISCO-19)" :> isco_code(occ))
  @@ ("Beruf " \o i \o " (CH-ISCO-19, m{nnliche Bezeichnung)" :> isco_labels(occ)[1])
  @@ ("Beruf " \o i \o " (CH-ISCO-19, weibliche Bezeichnung)" :> isco_labels(occ)[2])
  @@ ("Beruf " \o i \o " (Rohtext)" :> occ)

\* _normalize_nobility_name and _normalize_title: the tables have the
\* normalized text of every key as the key itself, but for "Wittwe".
normalize_title(title) == IF title = "Wittwe" THEN "Witwe" ELSE title

person_fields(e) ==
  ("Name" :> normalize_name(e["Name"])) @@ ("Vorname" :> e["Vorname"])
  @@ ("Ledigname" :> normalize_name(e["Ledigname"])) @@ ("Adelsname" :> e["Adelsname"])
  @@ ("Titel" :> normalize_title(e["Titel"])) @@ ("Arbeitsort" :> e["Arbeitsort"])
  @@ ("Name (Rohtext)" :> e["Name"]) @@ ("Vorname (Rohtext)" :> e["Vorname"])
  @@ ("Ledigname (Rohtext)" :> e["Ledigname"]) @@ ("Adelsname (Rohtext)" :> e["Adelsname"])
  @@ ("Titel (Rohtext)" :> e["Titel"])

\* A call that raises keeps what it did to unknown_addresses_before_1882.
Raised(exception, e, ua, ms) ==
  /\ pc' = "raised"
  /\ err' = exception
  /\ unknown_addresses_before_1882' = ua
  /\ misses' = ms
  /\ UNCHANGED normalized

Normalized(fields, e) ==
  /\ pc' = "normalize"
  /\ normalized' = fields
  /\ unknown_addresses_before_1882' = recorded_all(e, unknown_addresses_before_1882)
  /\ misses' = misses \o missed_all(e)
  /\ UNCHANGED err

\* normalize_person(e)
normalize_person(e) ==
  IF is_company(e) THEN Raised("AssertionError", e, unknown_addresses_before_1882, misses)
  ELSE IF e["Scan"] \notin DOMAIN pages
  THEN Raised("KeyError", e, unknown_addresses_before_1882, misses)
  ELSE IF position_raises(e["ID"])
  THEN Raised("ValueError", e, recorded_all(e, unknown_addresses_before_1882),
              misses \o missed_all(e))
  ELSE Normalized(person_fields(e) @@ addresses(e) @@ occupation_fields("1", e["Beruf"])
                    @@ occupation_fields("2", e["Beruf 2"])
                    @@ occupation_fields("3", e["Beruf 3"]) @@ page_and_position(e), e)

\* normalize_company: noga_code_i
noga_code(i, e) ==
  LET activity == e[IF i = 1 THEN "Beruf" ELSE IF i = 2 THEN "Beruf 2" ELSE "Beruf 3"]
  IN  IF activity \in economic_activities THEN economic_activities_noga(activity) ELSE ""

\* normalize_company: the code whose Name_de becomes noga_label_i; the
\* label of activity 3 is that of noga_code_2.
noga_label_code(i, e) ==
  IF noga_code(i, e) = "" THEN "" ELSE IF i = 3 THEN noga_code(2, e) ELSE noga_code(i, e)

noga_raises(e) ==
  \E i \in 1..3 : noga_code(i, e) # "" /\ noga_label_code(i, e) \notin DOMAIN noga

noga_label(i, e) == IF noga_code(i, e) = "" THEN "" ELSE noga[noga_label_code(i, e)]

\* _normalize_company_name
company_abbrev(w) ==
  IF w = "v." THEN "von" ELSE IF w = "u." THEN "und"
  ELSE IF w \in {"Cie.", "Comp."} THEN "Compagnie"
  ELSE IF w \in {"Gebr.", "Gebrd."} THEN "Gebr#der"
  ELSE IF w = "Schwst." THEN "Schwestern" ELSE IF w = "T}cht." THEN "T}chter" ELSE w

normalize_company_name(name) ==
  Join([n \in 1..Len(Words(name)) |-> company_abbrev(Words(name)[n])], " ")

company_fields(e) ==
  ("Name" :> normalize_company_name(e["Name"])) @@ ("Name (Rohtext)" :> e["Name"])
  @@ ("Branche 1 (NOGA-Code)" :> noga_code(1, e))
  @@ ("Branche 1 (NOGA-Bezeichnung)" :> noga_label(1, e))
  @@ ("Branche 2 (NOGA-Code)" :> noga_code(2, e))
  @@ ("Branche 2 (NOGA-Bezeichnung)" :> noga_label(2, e))
  @@ ("Branche 3 (NOGA-Code)" :> noga_code(3, e))
  @@ ("Branche 3 (NOGA-Bezeichnung)" :> noga_label(3, e))
  @@ ("Branche 1 (Rohtext)" :> e["Beruf"]) @@ ("Branche 2 (Rohtext)" :> e["Beruf 2"])
  @@ ("Branche 3 (Rohtext)" :> e["Beruf 3"])

\* normalize_company(e)
normalize_company(e) ==
  IF ~is_company(e) THEN Raised("AssertionError", e, unknown_addresses_before_1882, misses)
  ELSE IF position_raises(e["ID"])
  THEN Raised("ValueError", e, unknown_addresses_before_1882, misses)
  ELSE IF e["Scan"] \notin DOMAIN pages
  THEN Raised("KeyError", e, unknown_addresses_before_1882, misses)
  ELSE IF noga_raises(e)
  THEN Raised("KeyError", e, recorded_all(e, unknown_addresses_before_1882),
              misses \o missed_all(e))
  ELSE Normalized(company_fields(e) @@ addresses(e) @@ page_and_position(e), e)

\* The entries passed to the two functions: persons and companies on pages
\* of 1861, 1880 and 1882, with addresses that the reform table has, that
\* it has under another spelling and that it has not, and with activities
\* that are known, unknown and missing.
MaxCalls == 3

NoMore == <<"", "", "">>

On(scan, e) == [e EXCEPT !["Scan"] = scan]

PersonAddresses == {<<"Metzg. 85", "", "">>, <<"Ag. 7", "Stra%e 5", "Ag. 7">>,
                    <<"Ag. 9", "Ag. 7", "">>, <<"Huh", "Spital", "Metzg.">>}

CompanyAddresses == {<<"Metzg. 85", "Ag. 7", "">>, <<"Stra%e 5", "", "">>}

CompanyActivities == {<<"Bank", "", "Spital">>, <<"Bank", "Parf#merie", "Spital">>,
                      <<"Bank", "", "">>, <<"Huh", "Spital", "">>}

NormalizeEntries ==
  {On(s, Entry("v. Tavel", "Anna", "Wittwe", NoMore, <<"Lehrer", "Huh", "Spital">>, a)) :
     s \in DOMAIN pages, a \in PersonAddresses}
  \cup {On(s, Entry("Bu% & Cie.", "", "[Firma]", NoMore, b, a)) :
          s \in {"29210065", "29271234"}, b \in CompanyActivities, a \in CompanyAddresses}
  \cup {On("1", Entry("Meier", "", "", NoMore, NoMore, <<"Ag. 7", "", "">>)),
        [Entry("Meier", "Hans", "", NoMore, NoMore, <<"Ag. 7", "", "">>)
           EXCEPT !["ID"] = "300, 010,600"],
        [Entry("Meier", "Hans", "", NoMore, <<"Schnd.", "", "">>, <<"Ag. 7", "", "">>)
           EXCEPT !["ID"] = " 0300, 010,600 ,50"]}

NormalizePerson ==
  /\ pc = "normalize"
  /\ calls < MaxCalls
  /\ calls' = calls + 1
  /\ \E e \in NormalizeEntries : entry_in' = e /\ normalize_person(e)
  /\ UNCHANGED <<pos_arg, bad, num_warnings, warnings, stats>>
  /\ UNCHANGED <<load_vars, rewrite_vars, splitter_vars>>

NormalizeCompany ==
  /\ pc = "normalize"
  /\ calls < MaxCalls
  /\ calls' = calls + 1
  /\ \E e \in NormalizeEntries : entry_in' = e /\ normalize_company(e)
  /\ UNCHANGED <<pos_arg, bad, num_warnings, warnings, stats>>
  /\ UNCHANGED <<load_vars, rewrite_vars, splitter_vars>>

InitNormalize ==
  /\ pc = "normalize"
  /\ err = ""
  /\ LoadIdle
  /\ ValidateIdle
  /\ NormalizeIdle
  /\ RewriteIdle
  /\ lines = <<>>
  /\ MergeIdle
  /\ CleanupIdle
  /\ all_lines = <<>>
  /\ SplitIdle
  /\ DictIdle
  /\ CallIdle

NextNormalize == NormalizePerson \/ NormalizeCompany

SpecNormalize == InitNormalize /\ [][NextNormalize]_vars

(***************************************************************************)
(* The addresses before and after the reform of 1882.                      *)
(***************************************************************************)
HasReturned == pc = "normalize" /\ calls > 0

RawAddress(i) == entry_in[IF i = 1 THEN "Adresse" ELSE IF i = 2 THEN "Adresse 2" ELSE "Adresse 3"]

Modern(i) == normalized[IF i = 1 THEN "Adresse 1" ELSE IF i = 2 THEN "Adresse 2" ELSE "Adresse 3"]

Old(i) ==
  normalized[IF i = 1 THEN "Adresse 1 (bereinigt, vor Adressreform 1882)"
             ELSE IF i = 2 THEN "Adresse 2 (bereinigt, vor Adressreform 1882)"
             ELSE "Adresse 3 (bereinigt, vor Adressreform 1882)"]

Raw(i) ==
  normalized[IF i = 1 THEN "Adresse 1 (Rohtext)" ELSE IF i = 2 THEN "Adresse 2 (Rohtext)"
             ELSE "Adresse 3 (Rohtext)"]

Canonicalized(i) == normalize_address(RawAddress(i)).normalized

PageYear == ParseInt(SubSeq(normalized["Datum"], 1, 4))

InTable(a) == IF a \in DOMAIN address_reform_1882 THEN address_reform_1882[a] ELSE ""

\* C25: for a page before 1882 both functions give, for each address i,
\* the canonicalized address as "Adresse i (bereinigt, vor Adressreform
\* 1882)" and as "Adresse i" what the reform table has for it, "" if the
\* table has no such key; for a later page "Adresse i" is the
\* canonicalized address and the other field is ""; "Adresse i (Rohtext)"
\* is the field of the entry.
C25_reform_table_as_written ==
  HasReturned =>
    \A i \in 1..3 :
      /\ Raw(i) = RawAddress(i)
      /\ PageYear < 1882 => Old(i) = Canonicalized(i) /\ Modern(i) = InTable(Canonicalized(i))
      /\ PageYear >= 1882 => Old(i) = "" /\ Modern(i) = Canonicalized(i)

SharpS(a) == Replace(a, "%", "ss")

\* C25, as the code has it: an address that the table does not have as it
\* is written is looked up once more with "ss" for every sharp s.
C25_reform_table_in_both_spellings ==
  HasReturned =>
    \A i \in 1..3 :
      /\ Raw(i) = RawAddress(i)
      /\ PageYear < 1882 =>
            /\ Old(i) = Canonicalized(i)
            /\ Modern(i) = IF InTable(Canonicalized(i)) # "" THEN InTable(Canonicalized(i))
                            ELSE InTable(SharpS(Canonicalized(i)))
      /\ PageYear >= 1882 => Old(i) = "" /\ Modern(i) = Canonicalized(i)

C25_witness ==
  /\ HasReturned
  /\ PageYear = 1880
  /\ Old(1) = "Aarbergergasse 7" /\ Modern(1) = ""
  /\ Old(2) = "Stra%e 5" /\ Modern(2) = "Neuengasse 1"
  /\ Raw(2) = "Stra%e 5"

(***************************************************************************)
(* The addresses that the reform table does not have.                      *)
(***************************************************************************)
MissesOf(a) == {n \in 1..Len(misses) : misses[n].address = a}

FirstMissOf(a) == misses[Min(MissesOf(a))]

\* C26: unknown_addresses_before_1882 has exactly one record for each
\* address that missed the reform table; its count is the number of the
\* misses, its years are the smallest and the largest year of their pages,
\* its sample and its page are those of the first miss; no address that
\* the table has, in either spelling, and no empty address has a record.
C26_one_record_per_missed_address ==
  /\ DOMAIN unknown_addresses_before_1882 = {misses[n].address : n \in 1..Len(misses)}
  /\ \A a \in DOMAIN unknown_addresses_before_1882 :
        LET ua == unknown_addresses_before_1882[a]
        IN  /\ ua.address = a
            /\ a # ""
            /\ InTable(a) = "" /\ InTable(SharpS(a)) = ""
            /\ ua.count = Cardinality(MissesOf(a))
            /\ ua.min_year = Min({misses[n].year : n \in MissesOf(a)})
            /\ ua.max_year = Max({misses[n].year : n \in MissesOf(a)})
            /\ ua.min_year <= ua.max_year
            /\ ua.sample = FirstMissOf(a).sample
            /\ ua.sample_scan = FirstMissOf(a).sample_scan

C26_witness ==
  /\ "Aarbergergasse 7" \in DOMAIN unknown_addresses_before_1882
  /\ unknown_addresses_before_1882["Aarbergergasse 7"].count = 3
  /\ unknown_addresses_before_1882["Aarbergergasse 7"].min_year = 1861
  /\ unknown_addresses_before_1882["Aarbergergasse 7"].max_year = 1880
  /\ unknown_addresses_before_1882["Aarbergergasse 7"].sample = "Bu% & Cie."
  /\ calls = 3

(***************************************************************************)
(* The NOGA codes and labels of a company.                                 *)
(***************************************************************************)
Activity(i) == entry_in[IF i = 1 THEN "Beruf" ELSE IF i = 2 THEN "Beruf 2" ELSE "Beruf 3"]

Code(i) ==
  normalized[IF i = 1 THEN "Branche 1 (NOGA-Code)" ELSE IF i = 2 THEN "Branche 2 (NOGA-Code)"
             ELSE "Branche 3 (NOGA-Code)"]

Label(i) ==
  normalized[IF i = 1 THEN "Branche 1 (NOGA-Bezeichnung)"
             ELSE IF i = 2 THEN "Branche 2 (NOGA-Bezeichnung)"
             ELSE "Branche 3 (NOGA-Bezeichnung)"]

CompanyOnKnownPage ==
  /\ calls > 0
  /\ is_company(entry_in)
  /\ entry_in["Scan"] \in DOMAIN pages
  /\ entry_in["ID"] = "300,10,600,50"

\* C27: normalize_company gives, for each activity i, the Name_de of the
\* code it gives as "Branche i (NOGA-Code)", and "" for both when the
\* activity is not known; the label of activity 3 is that of code 3, also
\* when "Beruf 2" is empty or has another code, and the call does not fail.
C27_label_of_the_same_code ==
  CompanyOnKnownPage =>
    /\ pc # "raised"
    /\ \A i \in 1..3 :
         /\ Activity(i) \notin economic_activities => Code(i) = "" /\ Label(i) = ""
         /\ Activity(i) \in economic_activities =>
              Code(i) = economic_activities_noga(Activity(i)) /\ Label(i) = noga[Code(i)]

(***************************************************************************)
(* split_column: the boxes of the entries of a column.                     *)
(***************************************************************************)
InColumn == pc \in {"column_loop", "append_entry"} /\ Len(column_result) > 0

AllOfColumn == 1..Len(lines)

KeptOfColumn == {n \in 1..Len(lines) : ~Discarded(n)}

LeftEdge(S) == Min({lines[n].box.x : n \in S})

RightEdge(S) == Max({lines[n].box.x + lines[n].box.width : n \in S})

SharedExtent(S) ==
  \A n \in 1..Len(column_result) :
    /\ column_result[n].box.x = LeftEdge(S)
    /\ column_result[n].box.width = RightEdge(S) - LeftEdge(S)
    /\ column_result[n].box.y = column_lines[n].box.y
    /\ column_result[n].box.height = column_lines[n].box.height

\* C28: every entry of a column has as box.x the smallest x and as
\* box.width the largest right edge less that x, over all OCR lines of the
\* column, those that merge_lines discards included; box.y and box.height
\* are those of the entry's merged line.
C28_extent_of_all_lines == InColumn => SharedExtent(AllOfColumn)

\* C28, as the code has it: the extent is that of the lines that
\* merge_lines keeps, the discarded ones do not count.
C28_extent_of_kept_lines == InColumn => SharedExtent(KeptOfColumn)

C28_witness ==
  /\ InColumn
  /\ Len(column_result) = 2
  /\ KeptOfColumn # AllOfColumn
  /\ RightEdge(AllOfColumn) = 910
  /\ column_result[2].box = Box(300, 60, 600, 50)

(***************************************************************************)
(* The addresses of the Splitter in the Validator.                         *)
(***************************************************************************)
\* C29: the Validator accepts every address that cleanup_address returns:
\* _normalize_address gives ok = TRUE for it, since a place is a key of the
\* table of places, and a street with a number is split at the same place
\* by both, into a street or an abbreviation that resolves to a street of
\* the table of streets, and the same number.
C29_emitted_addresses_are_accepted ==
  Returned("_normalize_address") =>
    \A n \in 1..Len(arg) :
      /\ out[n].ok
      /\ \/ arg[n] \in pois
         \/ \E street \in streets \cup street_abbrevs, m \in 1..Len(arg[n]) :
              /\ arg[n] = street \o " " \o SubSeq(arg[n], m, Len(arg[n]))
              /\ IsNum(SubSeq(arg[n], m, Len(arg[n])))
              /\ \E full \in streets :
                   /\ street \in streets => full = street
                   /\ out[n].normalized = full \o " " \o SubSeq(arg[n], m, Len(arg[n]))

C29_witness ==
  /\ Returned("_normalize_address")
  /\ arg = <<"Metzg. 101", "Spital">>
  /\ out[1] = [ok |-> TRUE, normalized |-> "Metzgergasse 101"]
  /\ out[2].ok

(***************************************************************************)
(* The cleanup scripts that rewrite a volume of proofread/ in place:       *)
(* blackhole_lines.strip_lines, sanitize.sanitize,                         *)
(* apply_replacement.apply_replacements and fix_line_order.fix_line_order, *)
(* each on one volume.  A file is the sequence of its lines; volume and    *)
(* tmp are what the paths vol and vol + '.tmp' hold on disk (<<>>: an      *)
(* empty file, or none), buffer is what has been written to the open file  *)
(* but not yet to the disk, and outfile tells which of the two files is    *)
(* open for writing.  In the lines of a volume "#" is the character        *)
(* itself, which separates the text of an entry from its position.         *)
(***************************************************************************)
SCRIPTS == {"blackhole_lines", "sanitize", "apply_replacements", "fix_line_order"}

\* blackhole-lines.txt
lut == {"Anzeigen # 300,5,500,50"}

\* sanitize.FIXES, the patterns that match a line of the volumes below
sanitize_line(line) ==
  Replace(Replace(Replace(line, "Megg", "Metzg"), "gaffe", "gasse"), "plag", "platz")

\* apply_replacement.FIXES, the patterns that match a line of the volumes
\* below; fix_givennames finds none of its names followed by "." or ",,".
apply_replacements_line(line) == Replace(Replace(line, "Igfr.", "Jgfr."), ",, ", "., ")

COL_X_MIN_WIDTH == 850

\* text, pos = [x.strip() for x in line.split("#")]: pos
entry_pos(line) == Strip(Split(line, "#")[2])

\* x, y, width, height = [int(x) for x in pos.split(";")[0].split(",")]
entry_xywh(line) == Split(Split(entry_pos(line), ";")[1], ",")

entry_column(line) == IF ParseInt(entry_xywh(line)[1]) <= COL_X_MIN_WIDTH THEN 1 ELSE 2

entry_y(line) == ParseInt(entry_xywh(line)[2])

\* The characters of the lines below in the order of their code points.
CodePoints == " #,.0123456789;ABCDEFGHIJKLMNOPQRSTUVWXYZabcdefghijklmnopqrstuvwxyz"

ord(c) == CHOOSE i \in 1..Len(CodePoints) : Ch(CodePoints, i) = c

\* a < b for two str
RECURSIVE str_less(_, _)
str_less(a, b) ==
  IF b = "" THEN FALSE
  ELSE IF a = "" THEN TRUE
  ELSE IF Ch(a, 1) # Ch(b, 1) THEN ord(Ch(a, 1)) < ord(Ch(b, 1))
  ELSE str_less(SubSeq(a, 2, Len(a)), SubSeq(b, 2, Len(b)))

\* (column, y, line) < (column, y, line) of two entries of a Page
entry_less(a, b) ==
  IF entry_column(a) # entry_column(b) THEN entry_column(a) < entry_column(b)
  ELSE IF entry_y(a) # entry_y(b) THEN entry_y(a) < entry_y(b)
  ELSE str_less(a, b)

\* sorted(self.entries), as the lines of the entries
RECURSIVE sorted_entries(_)
sorted_entries(entries) ==
  IF entries = <<>> THEN <<>>
  ELSE LET first == CHOOSE n \in 1..Len(entries) :
                      \A m \in 1..Len(entries) : ~entry_less(entries[m], entries[n])
       IN  <<entries[first]>> \o
           sorted_entries([m \in 1..(Len(entries) - 1) |->
                             IF m < first THEN entries[m] ELSE entries[m + 1]])

\* fix_line_order up to out.getvalue(): every line starting with "#" opens
\* a page, and the entries of a page are written in sorted order.
RECURSIVE fix_line_order_from(_, _)
fix_line_order_from(ls, page) ==
  IF ls = <<>> THEN sorted_entries(page)
  ELSE IF Ch(Strip(Head(ls)), 1) = "#"
       THEN sorted_entries(page) \o <<Strip(Head(ls))>> \o fix_line_order_from(Tail(ls), <<>>)
       ELSE fix_line_order_from(Tail(ls), Append(page, Strip(Head(ls))))

fix_line_order(ls) == fix_line_order_from(ls, <<>>)

\* The content that a script means the volume to have in the end.
rewritten(s, ls) ==
  IF s = "blackhole_lines" THEN SelectSeq(ls, LAMBDA line : line \notin lut)
  ELSE IF s = "sanitize" THEN [n \in 1..Len(ls) |-> sanitize_line(ls[n])]
  ELSE IF s = "apply_replacements" THEN [n \in 1..Len(ls) |-> apply_replacements_line(ls[n])]
  ELSE fix_line_order(ls)

\* The lines ls reach the disk, at the end of the file that is open.
ToDisk(ls) ==
  IF outfile = "tmp"
  THEN tmp' = tmp \o ls /\ UNCHANGED volume
  ELSE volume' = volume \o ls /\ UNCHANGED tmp

RewriteStep == UNCHANGED <<err, script, original, load_vars, validate_vars, normalize_vars, splitter_vars>>

\* with open(path, 'r') as f: content = f.read(), and the replacements;
\* fix_line_order: the loop over open(vol, "r") that fills out.
ReadVolume ==
  /\ pc = "rewrite"
  /\ script \in {"sanitize", "apply_replacements", "fix_line_order"}
  /\ content' = rewritten(script, volume)
  /\ pc' = "read"
  /\ UNCHANGED <<volume, tmp, buffer, outfile>>
  /\ RewriteStep

\* open(path, 'w'): the volume itself is opened, and is empty from then on.
OpenVolume ==
  /\ pc = "read"
  /\ script \in {"sanitize", "apply_replacements"}
  /\ volume' = <<>>
  /\ outfile' = "volume"
  /\ pc' = "opened"
  /\ UNCHANGED <<tmp, buffer, content>>
  /\ RewriteStep

\* open(vol + '.tmp', 'w'); blackhole_lines then opens the volume to read
\* its lines one by one: content is what the loop has not yet read.
OpenTmp ==
  /\ \/ pc = "read" /\ script = "fix_line_order" /\ pc' = "opened" /\ UNCHANGED content
     \/ pc = "rewrite" /\ script = "blackhole_lines" /\ pc' = "loop" /\ content' = volume
  /\ tmp' = <<>>
  /\ outfile' = "tmp"
  /\ UNCHANGED <<volume, buffer>>
  /\ RewriteStep

\* f.write(content), outfile.write(out.getvalue())
WriteContent ==
  /\ pc = "opened"
  /\ buffer' = buffer \o content
  /\ pc' = "written"
  /\ UNCHANGED <<volume, tmp, content, outfile>>
  /\ RewriteStep

\* blackhole_lines: one round of the loop over the lines of the volume
WriteLine ==
  /\ pc = "loop"
  /\ content # <<>>
  /\ buffer' = IF Head(content) \in lut THEN buffer ELSE Append(buffer, Head(content))
  /\ content' = Tail(content)
  /\ UNCHANGED <<pc, volume, tmp, outfile>>
  /\ RewriteStep

\* The open file writes the beginning of its buffer to the disk, as it
\* does whenever the buffer is full.
Flush ==
  /\ outfile # ""
  /\ \E k \in 1..Len(buffer) :
       /\ ToDisk(SubSeq(buffer, 1, k))
       /\ buffer' = SubSeq(buffer, k + 1, Len(buffer))
  /\ UNCHANGED <<pc, content, outfile>>
  /\ RewriteStep

\* The end of the with block: the rest of the buffer is written and the
\* file closed.  In blackhole_lines the block ends after os.rename.
Close ==
  /\ \/ pc = "written" /\ pc' = (IF script = "fix_line_order" THEN "closed" ELSE "done")
     \/ pc = "renamed" /\ pc' = "done"
  /\ ToDisk(buffer)
  /\ buffer' = <<>>
  /\ outfile' = ""
  /\ UNCHANGED content
  /\ RewriteStep

\* os.rename(vol + '.tmp', vol): the path of the volume now names the file
\* that was the temporary one; a file that is still open stays open.
Rename ==
  /\ \/ pc = "closed" /\ script = "fix_line_order" /\ pc' = "done"
     \/ pc = "loop" /\ content = <<>> /\ pc' = "renamed"
  /\ volume' = tmp
  /\ tmp' = <<>>
  /\ outfile' = IF outfile = "tmp" THEN "volume" ELSE outfile
  /\ UNCHANGED <<buffer, content>>
  /\ RewriteStep

\* The script is killed or the machine stops: what has not reached the
\* disk is lost.
Crash ==
  /\ pc \in {"rewrite", "read", "opened", "loop", "written", "closed", "renamed"}
  /\ pc' = "crashed"
  /\ buffer' = <<>>
  /\ outfile' = ""
  /\ UNCHANGED <<volume, tmp, content>>
  /\ RewriteStep

MaxVolumeLines == 3

\* The lines of a volume after the header of its first page.
VolumeLines ==
  { "Meier, Megg. 3 # 900,10,500,50",
    "Igfr. Benz # 300,20,500,50",
    "Abel # 300,20,500,50",
    "Anzeigen # 300,5,500,50",
    "# Page 2" }

Volumes == {<<"# Page 1">> \o ls : ls \in SeqsUpTo(VolumeLines, MaxVolumeLines)}

InitRewrite ==
  /\ pc = "rewrite"
  /\ err = ""
  /\ script \in SCRIPTS
  /\ volume \in Volumes
  /\ original = volume
  /\ tmp = <<>>
  /\ buffer = <<>>
  /\ content = <<>>
  /\ outfile = ""
  /\ LoadIdle
  /\ ValidateIdle
  /\ NormalizeIdle
  /\ lines = <<>>
  /\ MergeIdle
  /\ CleanupIdle
  /\ all_lines = <<>>
  /\ SplitIdle
  /\ DictIdle
  /\ CallIdle

NextRewrite ==
  \/ ReadVolume
  \/ OpenVolume
  \/ OpenTmp
  \/ WriteContent
  \/ WriteLine
  \/ Flush
  \/ Close
  \/ Rename
  \/ Crash

SpecRewrite == InitRewrite /\ [][NextRewrite]_vars

\* While the script s rewrites it, and after s has ended or has been
\* stopped, the volume is what it was or what s makes of it.
Atomic(s) == script = s => volume \in {original, rewritten(s, original)}

\* C30: each of the four scripts writes the whole new content to a
\* temporary file, closes it and only then renames it over the volume, so
\* that at every moment, and after a crash at any step, the path of the
\* volume holds the old content or the complete new one.
C30_volume_is_never_partial ==
  /\ outfile # "volume"
  /\ \A s \in SCRIPTS : Atomic(s)

====
